---- MODULE Spec2Model ----
(***************************************************************************)
(* Model of the CMS backend of astro-koharu: path validation, the          *)
(* frontmatter date codec, the post handlers (read, write, create,         *)
(* toggle-draft, toggle-sticky), the site config's category map and the    *)
(* list/filter/sort/aggregate handler, the post editor in the browser, the *)
(* Open Graph cache, and two requests overlapping on one file.             *)
(***************************************************************************)
EXTENDS Integers, Sequences, FiniteSets, TLC

VARIABLES
    tree,        \* content directory: location -> post file or NoFile
    outside,     \* locations outside the content root that hold a file written by a handler
    config,      \* config/site.yaml: a sequence of lines, or ConfigMissing
    categoryMap, \* process-wide category map (module variable of lib/category)
    tz,          \* the process's timezone
    req,         \* the request (or function input) handled last
    resp,        \* the response (or function result) produced last
    accessed,    \* request-built paths the last request handed to the filesystem
    editor,      \* the browser's PostEditor: its React state
    client,      \* the browser's module state: cached config and category map
    ogCache,     \* .cache/og-data.json: url -> entry
    clock,       \* Date.now()
    fetches,     \* og-data requests awaiting their outbound fetch
    inflight     \* requests on the post file between their filesystem calls

vars == <<tree, outside, config, categoryMap, tz, req, resp, accessed, editor, client,
          ogCache, clock, fetches, inflight>>

\* the Open Graph cache and its requests
ogVars == <<ogCache, clock, fetches>>

\* the two requests that may overlap
Slots == {1, 2}

\* a request that has not arrived
Idle == [pc |-> "idle"]

\* no request is between its filesystem calls
NoRequests == [i \in Slots |-> Idle]

\* the browser's state
clientVars == <<editor, client>>

(***************************************************************************)
(* Bounds                                                                  *)
(***************************************************************************)
\* longest path, in segments, given to isPathSafe
MaxSegs == 3
\* most post files in the content tree of a list request
MaxFiles == 2
\* wall-clock ticks 0..MaxWall a local-time string can name
MaxWall == 4

(***************************************************************************)
(* Small helpers                                                           *)
(***************************************************************************)
Range(s) == {s[i] : i \in 1..Len(s)}

SeqsUpTo(S, n) == UNION {[1..k -> S] : k \in 0..n}

Min(S) == CHOOSE m \in S : \A o \in S : m <= o

NoResp == [status |-> 0]

(***************************************************************************)
(* Paths (node:path, POSIX).  A path string is its absolute flag and its   *)
(* "/"-separated segments.                                                 *)
(***************************************************************************)
Segments == {"..", ".", "note", "etc", "a.md", "a..b.md"}

\* the segment's text contains the two characters ".."
HasDotDot(seg) == seg \in {"..", "a..b.md"}

\* path.extname of a final segment
ExtName(seg) == IF seg \in {"a.md", "a..b.md"} THEN ".md" ELSE ""

Path(abs, segs) == [abs |-> abs, segs |-> segs]

RECURSIVE NormalizeSegs(_, _, _)
\* normalizeString of node:path: "." is dropped, ".." pops the previous
\* segment, is kept when nothing can be popped and the path is relative,
\* and is dropped at the root of an absolute path
NormalizeSegs(segs, acc, allowAboveRoot) ==
    IF segs = <<>> THEN acc
    ELSE LET s == Head(segs)
             r == Tail(segs)
         IN  IF s = "." THEN NormalizeSegs(r, acc, allowAboveRoot)
             ELSE IF s = ".."
                  THEN IF acc # <<>> /\ acc[Len(acc)] # ".."
                       THEN NormalizeSegs(r, SubSeq(acc, 1, Len(acc) - 1), allowAboveRoot)
                       ELSE IF allowAboveRoot
                            THEN NormalizeSegs(r, Append(acc, ".."), allowAboveRoot)
                            ELSE NormalizeSegs(r, acc, allowAboveRoot)
                  ELSE NormalizeSegs(r, Append(acc, s), allowAboveRoot)

\* path.normalize: an empty relative result is "."
Normalize(p) ==
    LET n == NormalizeSegs(p.segs, <<>>, ~p.abs)
    IN  IF n = <<>> /\ ~p.abs THEN Path(FALSE, <<".">>) ELSE Path(p.abs, n)

\* normalized.includes('..')
IncludesDotDot(p) == \E i \in 1..Len(p.segs) : HasDotDot(p.segs[i])

isPathSafe(filePath) ==
    LET normalized == Normalize(filePath)
    IN  ~IncludesDotDot(normalized) /\ ~normalized.abs

hasValidMarkdownExtension(filePath) ==
    /\ filePath.segs # <<>>
    /\ ExtName(filePath.segs[Len(filePath.segs)]) \in {".md", ".mdx"}

\* the path, after normalization, has a parent-directory segment or is absolute
EscapesRoot(p) ==
    LET n == Normalize(p)
    IN  n.abs \/ \E i \in 1..Len(n.segs) : n.segs[i] = ".."

AllPaths == {Path(a, s) : a \in BOOLEAN, s \in SeqsUpTo(Segments, MaxSegs)}

(***************************************************************************)
(* Time.  An instant is an integer number of ticks since the epoch; a      *)
(* local wall-clock reading is an integer number of ticks too.  A zone has *)
(* a standard offset and is on daylight time, one tick ahead, for the      *)
(* instants t1 <= e < t2.                                                  *)
(***************************************************************************)
Zone(name, std, t1, t2) == [name |-> name, std |-> std, t1 |-> t1, t2 |-> t2]

ZoneUTC == Zone("UTC", 0, 0, 0)
ZoneShanghai == Zone("Asia/Shanghai", 2, 0, 0)
ZoneNewYork == Zone("America/New_York", -1, 3, 6)

Zones == {ZoneUTC, ZoneShanghai, ZoneNewYork}

Offset(z, e) == z.std + (IF z.t1 <= e /\ e < z.t2 THEN 1 ELSE 0)

\* the wall-clock reading of instant e (Date#getHours and friends)
ToWall(z, e) == e + Offset(z, e)

\* instants a wall-clock reading names in the zone
Instants(z, w) == {e \in (w - z.std - 1)..(w - z.std) : ToWall(z, e) = w}

\* Date#setFullYear/setHours with local fields: the reading's instant; the
\* earlier one when the reading is repeated, and the reading taken with the
\* offset before the transition when the zone skips it
ToEpoch(z, w) == IF Instants(z, w) # {} THEN Min(Instants(z, w)) ELSE w - z.std

(***************************************************************************)
(* Frontmatter date values.  t is the kind of value, n its payload:        *)
(*   absent   the key is missing            null     YAML/JSON null        *)
(*   num      a number n                    bool     true (1), false (0)   *)
(*   empty    ""                            blank    whitespace only       *)
(*   local    "YYYY-MM-DD HH:mm:ss" naming wall-clock reading n            *)
(*   iso      ISO-8601 with "T" and "Z" naming instant n                   *)
(*   native   a string only Date's own parser reads, naming instant n      *)
(*   text     a malformed string without "T"                               *)
(*   textT    a malformed string that contains "T"                         *)
(*   Date     a Date object for instant n (in memory only)                 *)
(***************************************************************************)
DV(t, n) == [t |-> t, n |-> n]

Absent == DV("absent", 0)

StringKinds == {"empty", "blank", "local", "iso", "native", "text", "textT"}

IsString(v) == v.t \in StringKinds

\* dateStr.trim() is truthy
TrimTruthy(v) == IsString(v) /\ v.t \notin {"empty", "blank"}

\* dateStr.includes('T')
IncludesT(v) == v.t \in {"iso", "textT"}

\* !value
Falsy(v) == v.t \in {"absent", "null", "empty"} \/ (v.t \in {"num", "bool"} /\ v.n = 0)

\* format(date, 'yyyy-MM-dd HH:mm:ss')
FormatLocal(z, e) == DV("local", ToWall(z, e))

\* Date#toISOString
ToISOString(e) == DV("iso", e)

\* the instant "now"
Now == 100

(***************************************************************************)
(* Frontmatter.  Every key holds a tagged value; "absent" is a missing     *)
(* key.  In a stored file date and updated are YAML scalars: the value and *)
(* whether the scalar is quoted.                                           *)
(***************************************************************************)
Chars == {"a", "A", "b", "B"}
CategoryNames == {"x", "y"}
TagNames == {"p", "q"}

\* title: a string of characters, a number, or absent
TV(t, s) == [t |-> t, s |-> s]
\* categories: a string, a list whose items are names or lists of names, a number, or absent
CV(t, l) == [t |-> t, l |-> l]
Item(nested, names) == [nested |-> nested, names |-> names]
\* tags: a list of names, a string, or absent
GV(t, l) == [t |-> t, l |-> l]
\* draft, sticky: a boolean, a string, or absent
BV(t, b) == [t |-> t, b |-> b]

Scalar(q, v) == [q |-> q, v |-> v]

\* catalog stands for the keys the CMS does not interpret
FM(title, date, updated, categories, tags, draft, sticky, catalog) ==
    [title |-> title, date |-> date, updated |-> updated, categories |-> categories,
     tags |-> tags, draft |-> draft, sticky |-> sticky, catalog |-> catalog]

NoFile == [kind |-> "none"]
\* a file whose frontmatter yaml.load rejects
CorruptFile == [kind |-> "corrupt"]
\* a file readFile cannot read (EACCES)
UnreadableFile == [kind |-> "unreadable"]
PostFile(fm, body) == [kind |-> "post", fm |-> fm, body |-> body]

(***************************************************************************)
(* The YAML engine of the handlers                                         *)
(***************************************************************************)
\* yaml.dump quotes a string that would otherwise resolve to another type
\* (a timestamp, null) or that is empty or blank; a Date is written as a
\* plain ISO timestamp
DumpScalar(v) ==
    IF v.t = "Date" THEN Scalar(FALSE, ToISOString(v.n))
    ELSE Scalar(v.t \in {"local", "iso", "empty", "blank"}, v)

\* the replace() after yaml.dump: date/updated lines holding a quoted
\* YYYY-MM-DD HH:mm:ss lose their quotes
StripDateQuotes(sc) == IF sc.q /\ sc.v.t = "local" THEN Scalar(FALSE, sc.v) ELSE sc

\* the stringify engine of write, toggle-draft and toggle-sticky
StringifyDate(v) == StripDateQuotes(DumpScalar(v))

\* yaml.load of a scalar: the default schema resolves an unquoted timestamp
\* to a Date, reading its fields as UTC; JSON_SCHEMA has no timestamp type
LoadScalar(schema, sc) ==
    IF schema = "default" /\ ~sc.q /\ sc.v.t \in {"local", "iso"}
    THEN DV("Date", sc.v.n)
    ELSE sc.v

\* the schema the read, toggle and list handlers pass to yaml.load
HandlerSchema == "JSON_SCHEMA"

\* c.json of a loaded value: a Date becomes its ISO string
ToJson(v) == IF v.t = "Date" THEN ToISOString(v.n) ELSE v

\* matter(fileContent, engines) of a post file: the frontmatter as loaded
LoadFrontmatter(fm) ==
    [fm EXCEPT !.date = LoadScalar(HandlerSchema, fm.date),
               !.updated = LoadScalar(HandlerSchema, fm.updated)]

\* matter.stringify(content, frontmatter, engines)
StringifyFrontmatter(fm) ==
    [fm EXCEPT !.date = StringifyDate(fm.date),
               !.updated = StringifyDate(fm.updated)]

(***************************************************************************)
(* Write path date handling                                                *)
(***************************************************************************)
\* parse(dateStr, 'yyyy-MM-dd HH:mm:ss', new Date()) is valid
ParsesLocal(v) == v.t = "local"

\* parseISO(dateStr) is valid
ParsesISO(v) == v.t = "iso"

\* parse(dateStr, 'yyyy-MM-dd HH:mm:ss', new Date()): the local fields' instant
ParseLocal(z, v) == DV("Date", ToEpoch(z, v.n))

\* the loop over ['date', 'updated'] reaches the 400 for this value
DateFails(v) ==
    /\ TrimTruthy(v)
    /\ ~ParsesLocal(v)
    /\ ~(IncludesT(v) /\ ParsesISO(v))

\* the value the loop leaves in processedFrontmatter (for a value that does not fail)
ProcessDate(z, v) ==
    IF TrimTruthy(v) /\ ParsesLocal(v) THEN ParseLocal(z, v)
    ELSE IF TrimTruthy(v) /\ IncludesT(v) /\ ParsesISO(v) THEN DV("Date", v.n)
    ELSE v

\* serializeFrontmatter on one value: a Date is formatted as local time,
\* null and undefined are dropped
SerializeValue(z, v) ==
    IF v.t = "Date" THEN FormatLocal(z, v.n)
    ELSE IF v.t = "null" THEN Absent
    ELSE v

\* the frontmatter written by the write handler
WrittenFrontmatter(z, fm) ==
    StringifyFrontmatter(
        [fm EXCEPT !.date = SerializeValue(z, ProcessDate(z, fm.date)),
                   !.updated = SerializeValue(z, ProcessDate(z, fm.updated))])

(***************************************************************************)
(* config/site.yaml, line by line                                          *)
(*   key      a top-level "name: value" line (indent 0)                    *)
(*   catmap   the line "categoryMap:"                                      *)
(*   entry    an indented "name: slug" line                                *)
(*   comment  a "#" line in column 0          blank   an empty line        *)
(***************************************************************************)
CL(k, indent, name, slug) == [k |-> k, indent |-> indent, name |-> name, slug |-> slug]

KeyLine(name) == CL("key", 0, name, "")
CatMapLine == CL("catmap", 0, "categoryMap", "")
EntryLine(name, slug) == CL("entry", 2, name, slug)
CommentLine == CL("comment", 0, "", "")
BlankLine == CL("blank", 0, "", "")

ConfigMissing == <<CL("missing", 0, "", "")>>

Mapping(name, slug) == [name |-> name, slug |-> slug]

RECURSIVE SectionEntries(_, _)
\* the entry lines of the categoryMap section: those that follow the
\* categoryMap line up to the next top-level key
SectionEntries(lines, inSection) ==
    IF lines = <<>> THEN <<>>
    ELSE LET l == Head(lines)
         IN  IF l.k = "catmap" THEN SectionEntries(Tail(lines), TRUE)
             ELSE IF l.k = "key" THEN SectionEntries(Tail(lines), FALSE)
             ELSE IF l.k = "entry" /\ inSection
                  THEN <<Mapping(l.name, l.slug)>> \o SectionEntries(Tail(lines), inSection)
                  ELSE SectionEntries(Tail(lines), inSection)

\* (yaml.load(content).categoryMap) || {}
ConfigCategoryMap(lines) == SectionEntries(lines, FALSE)

MapNames(m) == {m[i].name : i \in 1..Len(m)}

RECURSIVE FilterNew(_, _)
\* the mappings whose name is not in the existing category map, in order
FilterNew(mappings, existing) ==
    IF mappings = <<>> THEN <<>>
    ELSE IF Head(mappings).name \in existing
         THEN FilterNew(Tail(mappings), existing)
         ELSE <<Head(mappings)>> \o FilterNew(Tail(mappings), existing)

\* `${categoryMapIndent}${name}: ${slug}`: without an indent the line is a
\* top-level key
InsertedLines(newMappings, indent) ==
    [i \in 1..Len(newMappings) |->
        IF indent = 0 THEN CL("key", 0, newMappings[i].name, newMappings[i].slug)
        ELSE CL("entry", indent, newMappings[i].name, newMappings[i].slug)]

RECURSIVE ScanLines(_, _, _, _, _)
\* the for loop over the lines, and the insertion after it
ScanLines(lines, newMappings, inCategoryMap, categoryMapIndent, insertedMappings) ==
    IF lines = <<>>
    THEN IF inCategoryMap /\ ~insertedMappings
         THEN InsertedLines(newMappings, categoryMapIndent)
         ELSE <<>>
    ELSE LET line == Head(lines)
             rest == Tail(lines)
         IN  IF line.k = "catmap"
             THEN <<line>> \o ScanLines(rest, newMappings, TRUE, categoryMapIndent, insertedMappings)
             ELSE LET leaving == inCategoryMap /\ line.k = "key"
                      insertNow == leaving /\ ~insertedMappings
                      stillIn == inCategoryMap /\ ~leaving
                      indent == IF stillIn /\ line.indent > 0 /\ categoryMapIndent = 0
                                THEN line.indent ELSE categoryMapIndent
                  IN  (IF insertNow THEN InsertedLines(newMappings, categoryMapIndent) ELSE <<>>)
                      \o <<line>>
                      \o ScanLines(rest, newMappings, stillIn, indent,
                                   insertedMappings \/ insertNow)

\* yaml.load rejects a mapping that holds a key twice
DuplicateKeys(lines) ==
    \/ \E i, j \in 1..Len(lines) :
        i < j /\ lines[i].k = "key" /\ lines[j].k = "key" /\ lines[i].name = lines[j].name
    \/ LET m == ConfigCategoryMap(lines)
       IN  \E i, j \in 1..Len(m) : i < j /\ m[i].name = m[j].name

\* addCategoryMappings throws: the config file is missing (ENOENT),
\* yaml.load throws on it, or it holds no key at all (yaml.load gives
\* undefined, whose categoryMap cannot be read)
AddMappingsThrows(lines) ==
    \/ lines = ConfigMissing
    \/ DuplicateKeys(lines)
    \/ \A i \in 1..Len(lines) : lines[i].k \in {"comment", "blank"}

\* addCategoryMappings without the filter of the names the config holds
addCategoryMappingsUnfiltered(lines, mappings) ==
    IF mappings = <<>> THEN lines
    ELSE ScanLines(lines, mappings, FALSE, 0, FALSE)

\* the config file after addCategoryMappings(projectRoot, mappings)
addCategoryMappings(lines, mappings) ==
    LET newMappings == FilterNew(mappings, MapNames(ConfigCategoryMap(lines)))
    IN  IF newMappings = <<>> THEN lines
        ELSE ScanLines(lines, newMappings, FALSE, 0, FALSE)

(***************************************************************************)
(* The filesystem as the handlers see it                                   *)
(***************************************************************************)
\* the post locations of the content directory
Locs == {<<"a.md">>, <<"note", "a.md">>}

\* path.join(projectRoot, CONTENT_DIR, postId), relative to the content
\* directory: a leading ".." leaves it
FileLocation(postId) == NormalizeSegs(postId.segs, <<>>, TRUE)

St(t, o, c, a) == [tree |-> t, outside |-> o, config |-> c, accessed |-> a]

\* a handler's outcome: its response and the filesystem it leaves
Out(rsp, st) == [resp |-> rsp, st |-> st]

Err(status, error) == [status |-> status, error |-> error]

\* the file at the location, NoFile when there is none (ENOENT)
FileAt(st, postId) ==
    IF FileLocation(postId) \in Locs THEN st.tree[FileLocation(postId)]
    ELSE IF FileLocation(postId) \in st.outside THEN CorruptFile
    ELSE NoFile

\* fs.readFile / fs.access of the path: the path reaches the filesystem
Touch(st, postId) == [st EXCEPT !.accessed = @ \cup {postId}]

\* fs.writeFile(filePath, content)
WriteFile(st, postId, file) ==
    LET loc == FileLocation(postId)
        t == Touch(st, postId)
    IN  IF loc \in Locs THEN [t EXCEPT !.tree[loc] = file]
        ELSE [t EXCEPT !.outside = @ \cup {loc}]

(***************************************************************************)
(* POST /api/cms/write                                                     *)
(***************************************************************************)
writeHandler(st, z, r) ==
    IF r.body = "notjson" THEN Out(Err(500, "Internal server error"), st)
    ELSE IF r.body = "badshape" THEN Out(Err(400, "validation"), st)
    ELSE IF ~isPathSafe(r.postId) THEN Out(Err(400, "Invalid postId"), st)
    ELSE IF ~hasValidMarkdownExtension(r.postId) THEN Out(Err(400, "Invalid file extension"), st)
    ELSE IF DateFails(r.frontmatter.date)
         THEN Out([status |-> 400, error |-> "Invalid date format", echo |-> r.frontmatter.date], st)
    ELSE IF DateFails(r.frontmatter.updated)
         THEN Out([status |-> 400, error |-> "Invalid updated format", echo |-> r.frontmatter.updated], st)
    ELSE IF r.categoryMappings # <<>> /\ AddMappingsThrows(st.config)
         THEN Out(Err(500, "Internal server error"), st)
    ELSE LET cfg == IF r.categoryMappings # <<>>
                    THEN addCategoryMappings(st.config, r.categoryMappings)
                    ELSE st.config
         IN  Out([status |-> 200, success |-> TRUE],
                 WriteFile([st EXCEPT !.config = cfg], r.postId,
                           PostFile(WrittenFrontmatter(z, r.frontmatter), r.content)))

(***************************************************************************)
(* GET /api/cms/read                                                       *)
(***************************************************************************)
\* the frontmatter of the JSON response
JsonFrontmatter(fm) == [fm EXCEPT !.date = ToJson(fm.date), !.updated = ToJson(fm.updated)]

\* a read handler that goes to the filesystem without the path check
readHandlerUnchecked(st, r) ==
    IF r.postId.segs = <<>> /\ ~r.postId.abs THEN Out(Err(400, "Missing postId parameter"), st)
    ELSE LET file == FileAt(st, r.postId)
             t == Touch(st, r.postId)
         IN  IF file = NoFile THEN Out(Err(404, "File not found"), t)
             ELSE IF file.kind # "post" THEN Out(Err(500, "Internal server error"), t)
             ELSE Out([status |-> 200,
                       frontmatter |-> JsonFrontmatter(LoadFrontmatter(file.fm)),
                       content |-> file.body], t)

readHandler(st, r) ==
    IF r.postId.segs = <<>> /\ ~r.postId.abs THEN Out(Err(400, "Missing postId parameter"), st)
    ELSE IF ~isPathSafe(r.postId) THEN Out(Err(400, "Invalid postId"), st)
    ELSE IF ~hasValidMarkdownExtension(r.postId) THEN Out(Err(400, "Invalid file extension"), st)
    ELSE LET file == FileAt(st, r.postId)
             t == Touch(st, r.postId)
         IN  IF file = NoFile THEN Out(Err(404, "File not found"), t)
             ELSE IF file.kind # "post" THEN Out(Err(500, "Internal server error"), t)
             ELSE Out([status |-> 200,
                       frontmatter |-> JsonFrontmatter(LoadFrontmatter(file.fm)),
                       content |-> file.body], t)

(***************************************************************************)
(* POST /api/cms/toggle-draft and /api/cms/toggle-sticky                   *)
(***************************************************************************)
\* frontmatter.draft === true
IsTrue(v) == v.t = "bool" /\ v.b

\* a toggle that takes every value but a missing one or false for a set flag
toggleHandlerTruthy(st, r, key) ==
    IF r.body = "notjson" THEN Out(Err(500, "Internal server error"), st)
    ELSE IF r.body = "badshape" THEN Out(Err(400, "validation"), st)
    ELSE IF ~isPathSafe(r.postId) THEN Out(Err(400, "Invalid postId"), st)
    ELSE IF ~hasValidMarkdownExtension(r.postId) THEN Out(Err(400, "Invalid file extension"), st)
    ELSE LET file == FileAt(st, r.postId)
             t == Touch(st, r.postId)
         IN  IF file = NoFile THEN Out(Err(404, "File not found"), t)
             ELSE IF file.kind # "post" THEN Out(Err(500, "Internal server error"), t)
             ELSE LET frontmatter == LoadFrontmatter(file.fm)
                      newValue == ~(frontmatter[key].t = "str" \/ IsTrue(frontmatter[key]))
                      toggled == [frontmatter EXCEPT ![key] = BV("bool", newValue)]
                  IN  Out([status |-> 200, success |-> TRUE, value |-> newValue],
                          WriteFile(t, r.postId,
                                    PostFile(StringifyFrontmatter(toggled), file.body)))

toggleHandler(st, r, key) ==
    IF r.body = "notjson" THEN Out(Err(500, "Internal server error"), st)
    ELSE IF r.body = "badshape" THEN Out(Err(400, "validation"), st)
    ELSE IF ~isPathSafe(r.postId) THEN Out(Err(400, "Invalid postId"), st)
    ELSE IF ~hasValidMarkdownExtension(r.postId) THEN Out(Err(400, "Invalid file extension"), st)
    ELSE LET file == FileAt(st, r.postId)
             t == Touch(st, r.postId)
         IN  IF file = NoFile THEN Out(Err(404, "File not found"), t)
             ELSE IF file.kind # "post" THEN Out(Err(500, "Internal server error"), t)
             ELSE LET frontmatter == LoadFrontmatter(file.fm)
                      newValue == ~IsTrue(frontmatter[key])
                      toggled == [frontmatter EXCEPT ![key] = BV("bool", newValue)]
                  IN  Out([status |-> 200, success |-> TRUE, value |-> newValue],
                          WriteFile(t, r.postId,
                                    PostFile(StringifyFrontmatter(toggled), file.body)))

toggleDraftHandler(st, r) == toggleHandler(st, r, "draft")

toggleStickyHandler(st, r) == toggleHandler(st, r, "sticky")

(***************************************************************************)
(* POST /api/cms/create                                                    *)
(***************************************************************************)
\* generateSlug of a category name
CategorySlug(name) == IF name = "x" THEN "note" ELSE "etc"

\* `${generateSlug(title)}.md`
SlugFileName(title) == "a.md"

\* map[name], "" when the name has no entry
Lookup(m, name) ==
    IF \E i \in 1..Len(m) : m[i].name = name
    THEN m[CHOOSE i \in 1..Len(m) : m[i].name = name].slug
    ELSE ""

generateFilePath(title, categories, customMappings, cmap) ==
    LET pathSegments ==
            [i \in 1..Len(categories) |->
                IF Lookup(customMappings, categories[i]) # ""
                THEN Lookup(customMappings, categories[i])
                ELSE IF Lookup(cmap, categories[i]) # ""
                     THEN Lookup(cmap, categories[i])
                     ELSE CategorySlug(categories[i])]
    IN  Path(FALSE, Append(pathSegments, SlugFileName(title)))

\* the file generateFrontmatter writes
generateFrontmatter(z, r) ==
    PostFile(FM(TV("str", r.title),
                Scalar(FALSE, FormatLocal(z, Now)),
                Scalar(FALSE, FormatLocal(z, Now)),
                IF r.categories # <<>> THEN CV("list", <<Item(TRUE, r.categories)>>)
                                       ELSE CV("absent", <<>>),
                IF r.tags # <<>> THEN GV("list", r.tags) ELSE GV("absent", <<>>),
                IF r.draft THEN BV("bool", TRUE) ELSE BV("absent", FALSE),
                BV("absent", FALSE),
                BV("bool", TRUE)),
             "")

\* a create handler that persists the request's mappings before it looks
\* for the target file
createHandlerMappingsFirst(st, z, cmap, r) ==
    IF r.body = "notjson" THEN Out(Err(500, "Internal server error"), st)
    ELSE IF r.body = "badshape" THEN Out(Err(400, "validation"), st)
    ELSE LET postId == generateFilePath(r.title, r.categories, r.categoryMappings, cmap)
         IN  IF ~isPathSafe(postId) THEN Out(Err(400, "Invalid file path"), st)
             ELSE IF r.categoryMappings # <<>> /\ AddMappingsThrows(st.config)
                  THEN Out(Err(500, "Internal server error"), st)
             ELSE LET cfg == IF r.categoryMappings # <<>>
                             THEN addCategoryMappings(st.config, r.categoryMappings)
                             ELSE st.config
                      t == Touch([st EXCEPT !.config = cfg], postId)
                  IN  IF FileAt(st, postId) # NoFile
                      THEN Out([status |-> 409, error |-> "File already exists",
                                postId |-> postId], t)
                      ELSE Out([status |-> 201, success |-> TRUE, postId |-> postId],
                               WriteFile(t, postId, generateFrontmatter(z, r)))

createHandler(st, z, cmap, r) ==
    IF r.body = "notjson" THEN Out(Err(500, "Internal server error"), st)
    ELSE IF r.body = "badshape" THEN Out(Err(400, "validation"), st)
    ELSE LET postId == generateFilePath(r.title, r.categories, r.categoryMappings, cmap)
         IN  IF ~isPathSafe(postId) THEN Out(Err(400, "Invalid file path"), st)
             ELSE LET t == Touch(st, postId)
                  IN  IF FileAt(st, postId) # NoFile
                      THEN Out([status |-> 409, error |-> "File already exists", postId |-> postId], t)
                      ELSE IF r.categoryMappings # <<>> /\ AddMappingsThrows(st.config)
                           THEN Out(Err(500, "Internal server error"), t)
                      ELSE LET cfg == IF r.categoryMappings # <<>>
                                      THEN addCategoryMappings(st.config, r.categoryMappings)
                                      ELSE st.config
                           IN  Out([status |-> 201, success |-> TRUE, postId |-> postId],
                                   WriteFile([t EXCEPT !.config = cfg], postId,
                                             generateFrontmatter(z, r)))

(***************************************************************************)
(* GET /api/cms/list: one file to one list item                            *)
(***************************************************************************)
RECURSIVE Dedupe(_, _)
\* [...new Set(names)]: first occurrences, in order
Dedupe(names, seen) ==
    IF names = <<>> THEN <<>>
    ELSE IF Head(names) \in seen THEN Dedupe(Tail(names), seen)
         ELSE <<Head(names)>> \o Dedupe(Tail(names), seen \cup {Head(names)})

RECURSIVE Flatten(_)
\* the for loop of extractCategoryNames: a list item is spread, a name is pushed
Flatten(items) ==
    IF items = <<>> THEN <<>> ELSE Head(items).names \o Flatten(Tail(items))

\* `for (const cat of categories)` on a value that is not iterable
CategoriesThrow(cv) == cv.t = "num"

extractCategoryNames(cv) ==
    IF cv.t = "absent" THEN <<>>
    ELSE IF cv.t = "str" THEN Flatten(cv.l)
    ELSE Dedupe(Flatten(cv.l), {})

\* Array.isArray(data.tags) ? data.tags : []
ExtractTags(gv) == IF gv.t = "list" THEN gv.l ELSE <<>>

\* dateStr.includes is not a function: a truthy value that is neither a
\* string nor a Date
DateThrows(v) == ~Falsy(v) /\ ~IsString(v) /\ v.t # "Date"

\* parseLocalDate, as the instant its ISO string names
parseLocalDate(z, v) ==
    IF Falsy(v) THEN Now
    ELSE IF v.t = "Date" THEN v.n
    ELSE IF ParsesLocal(v) THEN ToEpoch(z, v.n)
    ELSE IF IncludesT(v) /\ ParsesISO(v) THEN v.n
    ELSE IF v.t = "native" THEN v.n
    ELSE Now

\* the slug of a post file, as title characters
SlugTitle(id) == <<"b">>

NullItem == [kind |-> "null"]

\* `data.updated ? parseLocalDate(data.updated) : undefined`
Updated(has, n) == [has |-> has, n |-> n]

ListItem(id, title, date, updated, categories, tags, draft, sticky) ==
    [kind |-> "item", id |-> id, title |-> title, date |-> date, updated |-> updated,
     categories |-> categories, tags |-> tags, draft |-> draft, sticky |-> sticky]

\* parsePostFile: null when reading, parsing or converting throws
parsePostFile(z, id, file) ==
    IF file.kind # "post" THEN NullItem
    ELSE LET data == LoadFrontmatter(file.fm)
         IN  IF CategoriesThrow(data.categories) \/ DateThrows(data.date)
                \/ DateThrows(data.updated)
             THEN NullItem
             ELSE ListItem(id,
                           IF data.title.t = "absent" \/ data.title = TV("str", <<>>)
                           THEN TV("str", SlugTitle(id)) ELSE data.title,
                           parseLocalDate(z, data.date),
                           IF Falsy(data.updated) THEN Updated(FALSE, 0)
                           ELSE Updated(TRUE, parseLocalDate(z, data.updated)),
                           extractCategoryNames(data.categories),
                           ExtractTags(data.tags),
                           IsTrue(data.draft),
                           IsTrue(data.sticky))

(***************************************************************************)
(* GET /api/cms/list: filter, sort, statistics                             *)
(***************************************************************************)
\* the query of a list request; "" and <<>> are a parameter that is absent or empty
Query(category, tag, status, search, sort, order) ==
    [op |-> "list", category |-> category, tag |-> tag, status |-> status,
     search |-> search, sort |-> sort, order |-> order]

\* toLowerCase
LowerChar(c) == IF c = "A" THEN "a" ELSE IF c = "B" THEN "b" ELSE c
ToLower(s) == [i \in 1..Len(s) |-> LowerChar(s[i])]

\* String.prototype.includes
Includes(s, sub) ==
    \E i \in 0..(Len(s) - Len(sub)) : \A k \in 1..Len(sub) : s[i + k] = sub[k]

Member(names, name) == \E i \in 1..Len(names) : names[i] = name

\* the posts the category, tag and status filters leave
FilterUpToStatus(posts, params) ==
    LET byCategory == IF params.category = "" THEN posts
                      ELSE SelectSeq(posts, LAMBDA post : Member(post.categories, params.category))
        byTag == IF params.tag = "" THEN byCategory
                 ELSE SelectSeq(byCategory, LAMBDA post : Member(post.tags, params.tag))
    IN  IF params.status = "draft" THEN SelectSeq(byTag, LAMBDA post : post.draft)
        ELSE IF params.status = "published" THEN SelectSeq(byTag, LAMBDA post : ~post.draft)
        ELSE byTag

\* post.title.toLowerCase is not a function: the search filter meets a title
\* that is not a string
FilterThrows(posts, params) ==
    /\ params.search # <<>>
    /\ \E i \in 1..Len(FilterUpToStatus(posts, params)) :
            FilterUpToStatus(posts, params)[i].title.t # "str"

\* filterPosts without the published branch
filterPostsDraftOnly(posts, params) ==
    LET byCategory == IF params.category = "" THEN posts
                      ELSE SelectSeq(posts, LAMBDA post : Member(post.categories, params.category))
        byTag == IF params.tag = "" THEN byCategory
                 ELSE SelectSeq(byCategory, LAMBDA post : Member(post.tags, params.tag))
        byStatus == IF params.status = "draft" THEN SelectSeq(byTag, LAMBDA post : post.draft)
                    ELSE byTag
    IN  IF params.search = <<>> THEN byStatus
        ELSE SelectSeq(byStatus,
                       LAMBDA post : Includes(ToLower(post.title.s), ToLower(params.search)))

filterPosts(posts, params) ==
    IF params.search = <<>> THEN FilterUpToStatus(posts, params)
    ELSE SelectSeq(FilterUpToStatus(posts, params),
                   LAMBDA post : Includes(ToLower(post.title.s), ToLower(params.search)))

RECURSIVE SortedPlaces(_, _)
\* the places of the first n elements in sorted order: the n-th goes behind
\* the earlier elements that compare before it or equal to it
SortedPlaces(cmp, n) ==
    IF n = 0 THEN <<>>
    ELSE LET earlier == SortedPlaces(cmp, n - 1)
             c == Cardinality({k \in 1..(n - 1) : cmp[earlier[k], n] <= 0})
         IN  SubSeq(earlier, 1, c) \o <<n>> \o SubSeq(earlier, c + 1, n - 1)

\* Array.prototype.sort with a consistent comparator: stable, so an element
\* follows those that compare before it and those that compare equal and
\* precede it in the input; cmp[i, j] is the comparator on s[i] and s[j]
StableSortBy(s, cmp) ==
    LET places == SortedPlaces(cmp, Len(s))
    IN  [k \in 1..Len(s) |-> s[places[k]]]

RECURSIVE LexCompare(_, _)
LexCompare(s, t) ==
    IF s = <<>> /\ t = <<>> THEN 0
    ELSE IF s = <<>> THEN -1
    ELSE IF t = <<>> THEN 1
    ELSE IF Head(s) < Head(t) THEN -1
    ELSE IF Head(s) > Head(t) THEN 1
    ELSE LexCompare(Tail(s), Tail(t))

\* String.prototype.localeCompare: by letter, then lower case before upper case
LocaleCompare(s, t) ==
    LET letter(c) == IF LowerChar(c) = "a" THEN 1 ELSE 2
        upper(c) == IF c = LowerChar(c) THEN 0 ELSE 1
        byLetter == LexCompare([i \in 1..Len(s) |-> letter(s[i])],
                               [i \in 1..Len(t) |-> letter(t[i])])
    IN  IF byLetter # 0 THEN byLetter
        ELSE LexCompare([i \in 1..Len(s) |-> upper(s[i])], [i \in 1..Len(t) |-> upper(t[i])])

\* a.updated || a.date
UpdatedOrDate(post) == IF post.updated.has THEN post.updated.n ELSE post.date

\* the comparator of sortPosts; a title that is a number is compared as its
\* digits, which sort before every letter
Comparison(a, b, sort) ==
    IF sort = "title"
    THEN IF b.title.t = "str" THEN LocaleCompare(a.title.s, b.title.s) ELSE 1
    ELSE IF sort = "updated" THEN UpdatedOrDate(a) - UpdatedOrDate(b)
    ELSE a.date - b.date

\* a.title.localeCompare is not a function: the sort hands the comparator
\* every element but the first as `a`
SortThrows(posts, sort) ==
    sort = "title" /\ \E i \in 2..Len(posts) : posts[i].title.t # "str"

\* a sort that orders ascending and reverses the result for a descending
\* listing: posts equal on the key come out in reverse input order
sortPostsReversing(posts, sort, order) ==
    LET asc == StableSortBy(posts, [i, j \in 1..Len(posts) |->
                                       Comparison(posts[i], posts[j], sort)])
    IN  IF order = "asc" THEN asc
        ELSE [k \in 1..Len(asc) |-> asc[Len(asc) + 1 - k]]

sortPosts(posts, sort, order) ==
    StableSortBy(posts, [i, j \in 1..Len(posts) |->
                            IF order = "asc" THEN Comparison(posts[i], posts[j], sort)
                            ELSE 0 - Comparison(posts[i], posts[j], sort)])

RECENT_POSTS_COUNT == 10

RECURSIVE FlatMap(_, _)
\* posts.flatMap((p) => p[key])
FlatMap(posts, key) ==
    IF posts = <<>> THEN <<>> ELSE Head(posts)[key] \o FlatMap(Tail(posts), key)

\* Array.from(count.entries()) sorted by count, descending: the names in the
\* order they were first counted, each with the number of times it was counted
CountStats(names) ==
    LET first == Dedupe(names, {})
        entries == [i \in 1..Len(first) |->
                       [name |-> first[i],
                        count |-> Cardinality({k \in 1..Len(names) : names[k] = first[i]})]]
    IN  StableSortBy(entries, [i, j \in 1..Len(entries) |->
                                  entries[j].count - entries[i].count])

\* statistics whose recent posts are not cut to RECENT_POSTS_COUNT
calculateStatsUncut(posts) ==
    [total |-> Len(posts),
     published |-> Len(SelectSeq(posts, LAMBDA post : ~post.draft)),
     draft |-> Len(SelectSeq(posts, LAMBDA post : post.draft)),
     categoryStats |-> CountStats(FlatMap(posts, "categories")),
     tagStats |-> CountStats(FlatMap(posts, "tags")),
     recentPosts |-> StableSortBy(posts, [i, j \in 1..Len(posts) |->
                                            UpdatedOrDate(posts[j]) - UpdatedOrDate(posts[i])])]

calculateStats(posts) ==
    LET recent == StableSortBy(posts, [i, j \in 1..Len(posts) |->
                                          UpdatedOrDate(posts[j]) - UpdatedOrDate(posts[i])])
    IN  [total |-> Len(posts),
         published |-> Len(SelectSeq(posts, LAMBDA post : ~post.draft)),
         draft |-> Len(SelectSeq(posts, LAMBDA post : post.draft)),
         categoryStats |-> CountStats(FlatMap(posts, "categories")),
         tagStats |-> CountStats(FlatMap(posts, "tags")),
         recentPosts |-> SubSeq(recent, 1, IF Len(recent) < RECENT_POSTS_COUNT
                                           THEN Len(recent) ELSE RECENT_POSTS_COUNT)]

\* the order readdir lists the post files in
FileOrder ==
    <<<<"a.md">>, <<"b.md">>, <<"note", "a.md">>, <<"c.md">>, <<"d.md">>, <<"e.md">>,
      <<"f.md">>, <<"g.md">>, <<"h.md">>, <<"i.md">>, <<"j.md">>, <<"k.md">>>>

\* getAllMarkdownFiles
getAllMarkdownFiles(t) ==
    SelectSeq(FileOrder, LAMBDA l : l \in DOMAIN t /\ t[l] # NoFile)

\* names in the order of Array.prototype.sort()
NameOrder == <<"p", "q", "x", "y">>
SortedNames(names) == SelectSeq(NameOrder, LAMBDA n : Member(names, n))

\* parsedPosts.filter((post) => post !== null)
AllPosts(t, z) ==
    LET files == getAllMarkdownFiles(t)
    IN  SelectSeq([i \in 1..Len(files) |-> parsePostFile(z, files[i], t[files[i]])],
                  LAMBDA post : post # NullItem)

listHandler(t, z, q) ==
    LET allPosts == AllPosts(t, z)
        params == [category |-> q.category, tag |-> q.tag, status |-> q.status,
                   search |-> q.search]
        sort == IF q.sort = "" THEN "date" ELSE q.sort
        order == IF q.order = "" THEN "desc" ELSE q.order
    IN  IF FilterThrows(allPosts, params) THEN Err(500, "Internal server error")
        ELSE IF SortThrows(filterPosts(allPosts, params), sort)
        THEN Err(500, "Internal server error")
        ELSE [status |-> 200,
              posts |-> sortPosts(filterPosts(allPosts, params), sort, order),
              total |-> Len(filterPosts(allPosts, params)),
              stats |-> calculateStats(allPosts),
              categories |-> SortedNames(FlatMap(allPosts, "categories")),
              tags |-> SortedNames(FlatMap(allPosts, "tags"))]

(***************************************************************************)
(* The browser: API client, FrontmatterEditor form and PostEditor state    *)
(***************************************************************************)
\* safeParseDateString: ISO first, then local time, else the current date
safeParseDateString(z, v) ==
    IF IncludesT(v) /\ ParsesISO(v) THEN v.n
    ELSE IF ParsesLocal(v) THEN ToEpoch(z, v.n)
    ELSE Now

\* readPost: a non-empty date string of the response becomes a Date
ClientDate(z, v) ==
    IF IsString(v) /\ v.t # "empty" THEN DV("Date", safeParseDateString(z, v)) ELSE v

\* readPost(postId): the frontmatter of a 200 response
readPost(z, frontmatter) ==
    [frontmatter EXCEPT !.date = ClientDate(z, frontmatter.date),
                        !.updated = ClientDate(z, frontmatter.updated)]

\* prepareFrontmatterForApi: a Date becomes its local time string, null is dropped
prepareFrontmatterForApi(z, fm) ==
    [fm EXCEPT !.date = SerializeValue(z, fm.date),
               !.updated = SerializeValue(z, fm.updated)]

\* the values of the frontmatter form
FormData(title, date, updated, categories, tags, draft, sticky) ==
    [title |-> title, date |-> date, updated |-> updated, categories |-> categories,
     tags |-> tags, draft |-> draft, sticky |-> sticky]

\* formatDate: the field of a date
formatDate(z, v) ==
    IF v.t = "Date" THEN FormatLocal(z, v.n) ELSE DV("empty", 0)

\* useForm defaultValues: the form FrontmatterEditor mounts with
FormDefaults(z, fm) ==
    FormData(IF fm.title.t = "str" THEN fm.title.s ELSE <<>>,
             formatDate(z, fm.date),
             formatDate(z, fm.updated),
             IF fm.categories.t = "absent" THEN <<>> ELSE Flatten(fm.categories.l),
             IF fm.tags.t = "list" THEN fm.tags.l ELSE <<>>,
             IF fm.draft.t = "absent" THEN TRUE ELSE fm.draft.b,
             IF fm.sticky.t = "absent" THEN FALSE ELSE fm.sticky.b)

\* parseDate of a form field
parseDate(z, v) ==
    IF v.t = "empty" THEN Absent
    ELSE IF ParsesLocal(v) THEN DV("Date", ToEpoch(z, v.n))
    ELSE IF v.t \in {"iso", "native"} THEN DV("Date", v.n)
    ELSE Absent

\* formDataToFrontmatter: only the keys of the form
formDataToFrontmatter(z, data) ==
    FM(TV("str", data.title),
       parseDate(z, data.date),
       parseDate(z, data.updated),
       IF data.categories # <<>> THEN CV("list", <<Item(TRUE, data.categories)>>)
                                 ELSE CV("absent", <<>>),
       IF data.tags # <<>> THEN GV("list", data.tags) ELSE GV("absent", <<>>),
       BV("bool", data.draft),
       BV("bool", data.sticky),
       BV("absent", FALSE))

\* detectNewCategories against a category map: the names without a slug
\* in it, each with its suggested slug
detectNewCategories(categories, cmap) ==
    LET names == Dedupe(categories, {})
        new == SelectSeq(names, LAMBDA name : Lookup(cmap, name) = "")
    IN  [i \in 1..Len(new) |-> Mapping(new[i], CategorySlug(new[i]))]

\* { ...currentMap, ...categoryMappings }
MergeMaps(currentMap, mappings) ==
    [i \in 1..Len(currentMap) |->
        IF Lookup(mappings, currentMap[i].name) # ""
        THEN Mapping(currentMap[i].name, Lookup(mappings, currentMap[i].name))
        ELSE currentMap[i]]
    \o FilterNew(mappings, MapNames(currentMap))

\* useState of PostEditor before the post is loaded
InitialEditor ==
    [isLoading |-> TRUE,
     error |-> FALSE,
     frontmatter |-> FM(TV("str", <<>>), Absent, Absent, CV("absent", <<>>),
                        GV("absent", <<>>), BV("absent", FALSE), BV("absent", FALSE),
                        BV("absent", FALSE)),
     form |-> FormData(<<>>, DV("empty", 0), DV("empty", 0), <<>>, <<>>, TRUE, FALSE),
     content |-> "",
     currentCategories |-> <<>>,
     pendingCategoryMappings |-> <<>>,
     showCategoryDialog |-> FALSE,
     hasUnsavedChanges |-> FALSE,
     initialContentLoaded |-> FALSE,
     isSaving |-> FALSE,
     sent |-> [op |-> "none"]]

\* useState of useDashboardState: the filter and sort state, and the list
\* response on display (none yet)
NoData == [params |-> [op |-> "none"]]
InitialDashboard ==
    [status |-> "all", sortField |-> "date", sortOrder |-> "desc", data |-> NoData,
     error |-> FALSE]

\* CreatePostDialog as it is mounted: closed, nothing selected, no custom
\* category, no request under way
ClosedDialog ==
    [open |-> FALSE, selectedCategories |-> <<>>, customCategories |-> <<>>,
     isSubmitting |-> FALSE]

\* the browser before the dashboard has fetched the configuration
ClientInit ==
    /\ editor = InitialEditor
    /\ client = [cachedConfig |-> FALSE, categoryMap |-> <<>>, dashboard |-> InitialDashboard,
                 createDialog |-> ClosedDialog]

(***************************************************************************)
(* GET /api/cms/og-data.  A URL string is its text and what new URL()      *)
(* makes of it.                                                            *)
(***************************************************************************)
CACHE_TTL == 604800000

\* an og-data request may wait for its fetch in one of MaxFetches places
MaxFetches == 1

Url(text, kind) == [text |-> text, kind |-> kind]

\* two strings for one page, both valid
ValidUrls == {Url("http://a", "http"), Url("http://a/", "http")}

\* no url parameter, a string new URL() rejects, a protocol other than
\* http: and https:
OgUrls ==
    ValidUrls \cup {Url("", "missing"), Url("a b", "invalid"), Url("ftp://a", "protocol")}

\* readings of Date.now(), in milliseconds
Times == {0, 1, CACHE_TTL, CACHE_TTL + 1}

\* what the outbound fetch does
FetchOutcomes == {"ok", "non2xx", "timeout", "network"}

NoError == ""

OGData(originUrl, url, title, error) ==
    [originUrl |-> originUrl, url |-> url, title |-> title, error |-> error]

\* a fetchOGData whose failures leave no error field
fetchOGDataSilent(url, outcome) ==
    IF outcome = "ok" THEN OGData(url.text, "http://a/", "A", NoError)
    ELSE OGData(url.text, url.text, "", NoError)

\* fetchOGData(url) when the fetch does outcome: metascraper's record, or a
\* record with an error field
fetchOGData(url, outcome) ==
    IF outcome = "ok" THEN OGData(url.text, "http://a/", "A", NoError)
    ELSE IF outcome = "non2xx" THEN OGData(url.text, url.text, "", "Failed to fetch: 404")
    ELSE IF outcome = "timeout" THEN OGData(url.text, url.text, "", "Request timeout")
    ELSE OGData(url.text, url.text, "", "fetch failed")

NoEntry == [timestamp |-> -1]
CacheEntry(data, timestamp) == [data |-> data, timestamp |-> timestamp]

\* loadCache when there is no cache file
EmptyCache == [u \in {v.text : v \in ValidUrls} |-> NoEntry]

\* ogDataHandler up to its fetch, with every entry of the cache a hit
ogDataHandlerNoExpiry(cache, now, url) ==
    IF url.kind = "missing" THEN [fetch |-> FALSE, resp |-> Err(400, "Missing url parameter")]
    ELSE IF url.kind = "invalid" THEN [fetch |-> FALSE, resp |-> Err(400, "Invalid URL")]
    ELSE IF url.kind = "protocol"
         THEN [fetch |-> FALSE, resp |-> Err(400, "Invalid URL protocol")]
    ELSE IF cache[url.text] # NoEntry
         THEN [fetch |-> FALSE, resp |-> [status |-> 200, data |-> cache[url.text].data]]
    ELSE [fetch |-> TRUE, resp |-> NoResp]

\* ogDataHandler up to its fetch: the answer, or that it goes on to fetch
ogDataHandler(cache, now, url) ==
    IF url.kind = "missing" THEN [fetch |-> FALSE, resp |-> Err(400, "Missing url parameter")]
    ELSE IF url.kind = "invalid" THEN [fetch |-> FALSE, resp |-> Err(400, "Invalid URL")]
    ELSE IF url.kind = "protocol"
         THEN [fetch |-> FALSE, resp |-> Err(400, "Invalid URL protocol")]
    ELSE IF cache[url.text] # NoEntry /\ now - cache[url.text].timestamp < CACHE_TTL
         THEN [fetch |-> FALSE, resp |-> [status |-> 200, data |-> cache[url.text].data]]
    ELSE [fetch |-> TRUE, resp |-> NoResp]

NoFetch == [url |-> Url("", "missing")]

\* a handler waiting for its fetch of url: it holds the cache it loaded,
\* whose entry for url it will overwrite
Fetching(url, cache) == [url |-> url, cache |-> [cache EXCEPT ![url.text] = NoEntry]]

OgInit ==
    /\ ogCache = EmptyCache
    /\ clock = 0
    /\ fetches = [i \in 1..MaxFetches |-> NoFetch]

\* what every client and og action leaves alone
fileVars == <<tree, outside, config, categoryMap, tz, accessed>>

\* the request arrives: it is answered from the cache or with an error, or
\* it loads the cache and starts its fetch
OgRequest ==
    \E url \in OgUrls :
        LET o == ogDataHandler(ogCache, clock, url)
        IN  /\ req' = [op |-> "og-data", url |-> url, fetch |-> "none"]
            /\ IF o.fetch
               THEN /\ \E i \in DOMAIN fetches :
                        /\ fetches[i] = NoFetch
                        /\ \A j \in 1..(i - 1) : fetches[j] # NoFetch
                        /\ fetches' = [fetches EXCEPT ![i] = Fetching(url, ogCache)]
                    /\ resp' = NoResp
               ELSE /\ fetches' = fetches
                    /\ resp' = o.resp
            /\ UNCHANGED <<ogCache, clock, fileVars, clientVars, inflight>>

\* the fetch ends: the handler stores the record in the cache it loaded,
\* saves that cache and answers
OgFetched ==
    \E i \in DOMAIN fetches, outcome \in FetchOutcomes :
        /\ fetches[i] # NoFetch
        /\ LET url == fetches[i].url
               data == fetchOGData(url, outcome)
           IN  /\ req' = [op |-> "og-data", url |-> url, fetch |-> outcome]
               /\ ogCache' = [fetches[i].cache EXCEPT ![url.text] = CacheEntry(data, clock)]
               /\ resp' = [status |-> 200, data |-> data]
        /\ fetches' = [fetches EXCEPT ![i] = NoFetch]
        /\ UNCHANGED <<clock, fileVars, clientVars, inflight>>

\* time passes
Tick ==
    /\ \E t \in Times : t > clock /\ clock' = t
    /\ UNCHANGED <<ogCache, fetches, req, resp, fileVars, clientVars, inflight>>

(***************************************************************************)
(* Requests                                                                *)
(***************************************************************************)
\* the request body: not JSON, JSON the schema rejects, JSON it accepts
Bodies == {"notjson", "badshape", "ok"}

ReqPaths ==
    {Path(FALSE, <<"a.md">>), Path(FALSE, <<"note", "a.md">>),
     Path(FALSE, <<"note", "..", "a.md">>), Path(FALSE, <<"..", "a.md">>),
     Path(FALSE, <<"..", "..", "etc", "a.md">>), Path(TRUE, <<"etc", "a.md">>),
     Path(FALSE, <<"a..b.md">>), Path(FALSE, <<"note">>), Path(FALSE, <<>>)}

SafePaths == {Path(FALSE, <<"a.md">>)}

BaseFm ==
    FM(TV("str", <<"a">>), DV("local", 1), Absent,
       CV("list", <<Item(FALSE, <<"x">>)>>), GV("list", <<"p">>),
       BV("absent", FALSE), BV("absent", FALSE), BV("bool", TRUE))

\* date and updated values of write requests
DateInputs ==
    {Absent, DV("null", 0), DV("num", 7), DV("empty", 0), DV("blank", 0),
     DV("text", 0), DV("textT", 0), DV("iso", 1)}
    \cup {DV("local", w) : w \in 0..MaxWall}

PathFms == {BaseFm}

DateFms ==
    {[BaseFm EXCEPT !.date = d] : d \in DateInputs}
    \cup {[BaseFm EXCEPT !.updated = d] : d \in DateInputs}

\* categoryMappings of write requests
WriteMappings == {<<>>, <<Mapping("y", "etc")>>}

\* categoryMappings of create requests
CreateMappings == {<<>>, <<Mapping("x", "..")>>, <<Mapping("y", "etc")>>}

InitialPost ==
    PostFile(FM(TV("str", <<"A", "b">>), Scalar(FALSE, DV("local", 2)), Scalar(FALSE, Absent),
                CV("list", <<Item(TRUE, <<"x">>)>>), GV("list", <<"p">>),
                BV("absent", FALSE), BV("absent", FALSE), BV("bool", TRUE)),
             "text")

InitialConfig ==
    <<KeyLine("title"), CatMapLine, EntryLine("x", "note"), KeyLine("featured")>>

\* loadSiteConfig and main: the category map the process starts with
LoadedCategoryMap(lines) == IF lines = ConfigMissing THEN <<>> ELSE ConfigCategoryMap(lines)

\* the server started in one of the zones, over a content tree with one post
InitIn(zones) ==
    /\ tree = [l \in Locs |-> IF l = <<"a.md">> THEN InitialPost ELSE NoFile]
    /\ outside = {}
    /\ config = InitialConfig
    /\ categoryMap = LoadedCategoryMap(config)
    /\ tz \in zones
    /\ req = [op |-> "none"]
    /\ resp = NoResp
    /\ accessed = {}
    /\ ClientInit
    /\ OgInit
    /\ inflight = NoRequests

Init == InitIn({ZoneUTC})

\* the filesystem a request starts from
Now0 == St(tree, outside, config, {})

Apply(r, o) ==
    /\ req' = r
    /\ resp' = o.resp
    /\ tree' = o.st.tree
    /\ outside' = o.st.outside
    /\ config' = o.st.config
    /\ accessed' = o.st.accessed
    /\ UNCHANGED <<categoryMap, tz, ogVars, inflight>>

WriteRequests(paths, fms) ==
    {[op |-> "write", body |-> "ok", postId |-> p, frontmatter |-> fm, content |-> "text",
      categoryMappings |-> cm] :
        p \in paths, fm \in fms, cm \in WriteMappings}
    \cup {[op |-> "write", body |-> b, postId |-> Path(FALSE, <<>>), frontmatter |-> BaseFm,
           content |-> "", categoryMappings |-> <<>>] : b \in Bodies \ {"ok"}}

PostIdRequests(op, paths) ==
    {[op |-> op, body |-> "ok", postId |-> p] : p \in paths}
    \cup {[op |-> op, body |-> b, postId |-> Path(FALSE, <<>>)] : b \in Bodies \ {"ok"}}

CreateRequests ==
    {[op |-> "create", body |-> "ok", title |-> <<"a">>, categories |-> cs, tags |-> <<>>,
      draft |-> TRUE, categoryMappings |-> cm] :
        cs \in {<<>>, <<"x">>}, cm \in CreateMappings}
    \cup {[op |-> "create", body |-> b, title |-> <<>>, categories |-> <<>>, tags |-> <<>>,
           draft |-> TRUE, categoryMappings |-> <<>>] : b \in Bodies \ {"ok"}}

WriteReq(paths, fms) ==
    \E r \in WriteRequests(paths, fms) :
        /\ r.op = "write"
        /\ Apply(r, writeHandler(Now0, tz, r))
        /\ UNCHANGED clientVars

ReadReq(paths) ==
    \E r \in {[op |-> "read", postId |-> p] : p \in paths} :
        /\ r.op = "read"
        /\ Apply(r, readHandler(Now0, r))
        /\ UNCHANGED clientVars

ToggleDraftReq(paths) ==
    \E r \in PostIdRequests("toggle-draft", paths) :
        /\ r.op = "toggle-draft"
        /\ Apply(r, toggleDraftHandler(Now0, r))
        /\ UNCHANGED clientVars

ToggleStickyReq(paths) ==
    \E r \in PostIdRequests("toggle-sticky", paths) :
        /\ r.op = "toggle-sticky"
        /\ Apply(r, toggleStickyHandler(Now0, r))
        /\ UNCHANGED clientVars

CreateReq ==
    \E r \in CreateRequests :
        /\ r.op = "create"
        /\ Apply(r, createHandler(Now0, tz, categoryMap, r))
        /\ UNCHANGED clientVars

\* the handlers over every shape of request path
Next ==
    \/ WriteReq(ReqPaths, PathFms)
    \/ ReadReq(ReqPaths)
    \/ ToggleDraftReq(ReqPaths)
    \/ ToggleStickyReq(ReqPaths)
    \/ CreateReq

Spec == Init /\ [][Next]_vars

\* the handlers on one post, over every kind of date value, in every zone
NextDates ==
    \/ WriteReq(SafePaths, DateFms)
    \/ ReadReq(SafePaths)
    \/ ToggleDraftReq(SafePaths)
    \/ ToggleStickyReq(SafePaths)

SpecDates == InitIn(Zones) /\ [][NextDates]_vars

(***************************************************************************)
(* The server's category map: GET /api/cms/config, and creates in new      *)
(* categories                                                              *)
(***************************************************************************)
\* GET /api/cms/config: the category map main loaded at startup
ConfigReq ==
    /\ req' = [op |-> "config"]
    /\ resp' = [status |-> 200, categoryMap |-> categoryMap]
    /\ UNCHANGED <<tree, outside, config, categoryMap, tz, accessed, clientVars, ogVars, inflight>>

\* creates in no category, in one of the config's map, and in a new one,
\* with and without a slug for it
CategoryCreateRequests ==
    {[op |-> "create", body |-> "ok", title |-> <<"a">>, categories |-> cs, tags |-> <<>>,
      draft |-> TRUE, categoryMappings |-> cm] :
        cs \in {<<>>, <<"x">>, <<"y">>},
        cm \in {<<>>, <<Mapping("y", "etc")>>, <<Mapping("y", "misc")>>}}

CategoryCreateReq ==
    \E r \in CategoryCreateRequests :
        /\ r.op = "create"
        /\ Apply(r, createHandler(Now0, tz, categoryMap, r))
        /\ UNCHANGED clientVars

NextCategoryMap ==
    \/ WriteReq(SafePaths, PathFms)
    \/ CategoryCreateReq
    \/ ConfigReq

SpecCategoryMap == Init /\ [][NextCategoryMap]_vars

(***************************************************************************)
(* The post editor in the browser, saving through POST /api/cms/write      *)
(***************************************************************************)
\* the post the editor is opened on
EditorPostId == Path(FALSE, <<"a.md">>)

\* getCMSConfig on the dashboard: GET /config answers the server's category
\* map, which setCategoryMap stores; the answer is cached
FetchConfig ==
    /\ ~client.cachedConfig
    /\ client' = [client EXCEPT !.cachedConfig = TRUE, !.categoryMap = categoryMap]
    /\ UNCHANGED <<tree, outside, config, categoryMap, tz, req, resp, accessed, editor, ogVars, inflight>>

\* the loadPost effect: readPost, then the form mounts with its defaults
LoadPost ==
    /\ editor.isLoading
    /\ LET r == [op |-> "read", postId |-> EditorPostId]
           o == readHandler(Now0, r)
       IN  /\ Apply(r, o)
           /\ editor' =
                IF o.resp.status = 200
                THEN LET frontmatter == readPost(tz, o.resp.frontmatter)
                     IN  [editor EXCEPT !.isLoading = FALSE,
                                        !.frontmatter = frontmatter,
                                        !.form = FormDefaults(tz, frontmatter),
                                        !.content = o.resp.content,
                                        !.initialContentLoaded = o.resp.content # ""]
                ELSE [editor EXCEPT !.isLoading = FALSE, !.error = TRUE]
    /\ UNCHANGED client

\* titles and category fields typed into the form
FormTitles == {<<"A", "b">>, <<"a">>}
FormCategories == {<<>>, <<"x">>, <<"y">>, <<"x", "y">>}

\* a change of a form field: the watch callback hands the form's frontmatter
\* and its categories to PostEditor
EditFormTo(titles, categoryFields) ==
    /\ ~editor.isLoading /\ ~editor.error /\ ~editor.showCategoryDialog
    /\ \E title \in titles, categories \in categoryFields :
        LET data == [editor.form EXCEPT !.title = title, !.categories = categories]
        IN  /\ data # editor.form
            /\ editor' = [editor EXCEPT !.form = data,
                                        !.frontmatter = formDataToFrontmatter(tz, data),
                                        !.currentCategories = data.categories,
                                        !.hasUnsavedChanges = TRUE]
    /\ UNCHANGED <<tree, outside, config, categoryMap, tz, req, resp, accessed, client, ogVars, inflight>>

EditForm ==
    /\ TRUE
    /\ EditFormTo(FormTitles, FormCategories)

\* editor.onChange: the body of the post is edited; the change is marked
\* only once initial content was loaded into the editor
EditContent ==
    /\ ~editor.isLoading /\ ~editor.error /\ ~editor.showCategoryDialog
    /\ \E content \in {"text", "edited"} \ {editor.content} :
        editor' = [editor EXCEPT !.content = content,
                                 !.hasUnsavedChanges = @ \/ editor.initialContentLoaded]
    /\ UNCHANGED <<tree, outside, config, categoryMap, tz, req, resp, accessed, client, ogVars, inflight>>

\* the write request performSave sends
SaveRequest(ed, z, mappings) ==
    LET updatedFrontmatter ==
            [ed.frontmatter EXCEPT !.updated = DV("Date", Now),
                                   !.date = IF Falsy(@) THEN DV("Date", Now) ELSE @]
    IN  [op |-> "write", body |-> "ok", postId |-> EditorPostId,
         frontmatter |-> prepareFrontmatterForApi(z, updatedFrontmatter),
         content |-> ed.content, categoryMappings |-> mappings]

\* performSave(categoryMappings) from editor state ed; given tells whether
\* the argument was passed
performSave(ed, mappings, given) ==
    LET r == SaveRequest(ed, tz, mappings)
        o == writeHandler(Now0, tz, r)
    IN  /\ Apply(r, o)
        /\ IF o.resp.status = 200
           THEN /\ editor' = [ed EXCEPT !.hasUnsavedChanges = FALSE]
                /\ client' = IF given
                             THEN [client EXCEPT !.categoryMap = MergeMaps(@, mappings)]
                             ELSE client
           ELSE /\ editor' = ed
                /\ client' = client

\* handleSave: the Save button, or Ctrl/Cmd+S, which the window listens for
\* from the mount of the editor on
handleSave ==
    /\ TRUE
    /\ LET newCategories == detectNewCategories(editor.currentCategories, client.categoryMap)
       IN  IF newCategories # <<>>
           THEN /\ editor' = [editor EXCEPT !.pendingCategoryMappings = newCategories,
                                            !.showCategoryDialog = TRUE]
                /\ UNCHANGED <<tree, outside, config, categoryMap, tz, req, resp,
                               accessed, client, ogVars, inflight>>
           ELSE performSave(editor, <<>>, FALSE)

\* the slugs the dialog can be confirmed with: each suggested one or another
DialogSlugs(pending) ==
    {m \in SeqsUpTo([name : CategoryNames, slug : {"note", "etc", "misc"}], Len(pending)) :
        /\ Len(m) = Len(pending)
        /\ \A i \in 1..Len(m) :
            /\ m[i].name = pending[i].name
            /\ m[i].slug \in {pending[i].slug, "misc"}}

\* handleCategoryMappingConfirm
handleCategoryMappingConfirm ==
    /\ editor.showCategoryDialog
    /\ \E mappings \in DialogSlugs(editor.pendingCategoryMappings) :
        performSave([editor EXCEPT !.showCategoryDialog = FALSE], mappings, TRUE)

\* handleCategoryMappingCancel
handleCategoryMappingCancel ==
    /\ editor.showCategoryDialog
    /\ editor' = [editor EXCEPT !.showCategoryDialog = FALSE]
    /\ UNCHANGED <<tree, outside, config, categoryMap, tz, req, resp, accessed, client, ogVars, inflight>>

\* posts the editor is opened on: categories all in the config's map, or
\* one of them not
EditorPosts ==
    {InitialPost,
     [InitialPost EXCEPT !.fm.categories = CV("list", <<Item(TRUE, <<"x", "y">>)>>)]}

InitEditor ==
    /\ tree \in {[l \in Locs |-> IF l = EditorPostId.segs THEN post ELSE NoFile] :
                    post \in EditorPosts}
    /\ outside = {}
    /\ config = InitialConfig
    /\ categoryMap = LoadedCategoryMap(config)
    /\ tz \in {ZoneUTC, ZoneNewYork}
    /\ req = [op |-> "none"]
    /\ resp = NoResp
    /\ accessed = {}
    /\ ClientInit
    /\ OgInit
    /\ inflight = NoRequests

NextEditor ==
    \/ FetchConfig
    \/ LoadPost
    \/ EditForm
    \/ EditContent
    \/ handleSave
    \/ handleCategoryMappingConfirm
    \/ handleCategoryMappingCancel

SpecEditor == InitEditor /\ [][NextEditor]_vars

(***************************************************************************)
(* addCategoryMappings over the shapes of config/site.yaml                 *)
(***************************************************************************)
\* the categoryMap section followed by other keys, at the end of the file,
\* with comments and blank lines, empty, missing, and no file at all
ConfigShapes ==
    {InitialConfig,
     <<KeyLine("title"), CatMapLine, EntryLine("x", "note")>>,
     <<KeyLine("title"), CatMapLine, EntryLine("x", "note"), BlankLine>>,
     <<CommentLine, CatMapLine, CommentLine, EntryLine("x", "note"), BlankLine,
       CommentLine, KeyLine("featured")>>,
     <<KeyLine("title"), CatMapLine, CL("entry", 4, "x", "note"), KeyLine("featured")>>,
     <<KeyLine("title"), CatMapLine, KeyLine("featured")>>,
     <<KeyLine("title"), CatMapLine>>,
     <<KeyLine("title"), KeyLine("featured")>>,
     ConfigMissing}

\* mapping sets: one or two names, each with a slug
MappingSets ==
    {m \in SeqsUpTo([name : CategoryNames, slug : {"note", "etc", "misc"}], 2) :
        \A i, j \in 1..Len(m) : i # j => m[i].name # m[j].name}

InitConfig ==
    /\ tree = [l \in Locs |-> NoFile]
    /\ outside = {}
    /\ config \in ConfigShapes
    /\ categoryMap = LoadedCategoryMap(config)
    /\ tz = ZoneUTC
    /\ req = [op |-> "none"]
    /\ resp = NoResp
    /\ accessed = {}
    /\ ClientInit
    /\ OgInit
    /\ inflight = NoRequests

\* one call of addCategoryMappings(projectRoot, mappings): it returns
\* (status 200) or throws (status 500)
AddMappings ==
    \E m \in MappingSets :
        /\ req' = [op |-> "addCategoryMappings", mappings |-> m, before |-> config]
        /\ IF AddMappingsThrows(config)
           THEN /\ resp' = Err(500, "throws")
                /\ config' = config
           ELSE /\ resp' = [status |-> 200]
                /\ config' = addCategoryMappings(config, m)
        /\ UNCHANGED <<tree, outside, categoryMap, tz, accessed, clientVars, ogVars, inflight>>

SpecConfig == InitConfig /\ [][AddMappings]_vars

(***************************************************************************)
(* The Open Graph cache over time                                          *)
(***************************************************************************)
NextOg ==
    \/ OgRequest
    \/ OgFetched
    \/ Tick

SpecOg == Init /\ [][NextOg]_vars

\* two og-data requests can wait for their fetches at once
InitOgRace ==
    /\ tree = [l \in Locs |-> IF l = <<"a.md">> THEN InitialPost ELSE NoFile]
    /\ outside = {}
    /\ config = InitialConfig
    /\ categoryMap = LoadedCategoryMap(config)
    /\ tz = ZoneUTC
    /\ req = [op |-> "none"]
    /\ resp = NoResp
    /\ accessed = {}
    /\ ClientInit
    /\ ogCache = EmptyCache
    /\ clock = 0
    /\ fetches = <<NoFetch, NoFetch>>
    /\ inflight = NoRequests

NextOgRace ==
    \/ OgRequest
    \/ OgFetched

SpecOgRace == InitOgRace /\ [][NextOgRace]_vars

(***************************************************************************)
(* Category mappings of requests sent to the API by any client.  A slug is *)
(* one of the texts below.                                                 *)
(***************************************************************************)
\* categorySlugSchema: /^[a-z0-9-]+$/ on a text of at least one character
categorySlugSchema(slug) == slug \in {"note", "etc", "misc"}

\* categoryMappings the request schemas of write and create accept:
\* z.record(z.string(), z.string())
RecordOfStrings ==
    {<<>>} \cup {<<Mapping(n, s)>> : n \in {"y", "z"}, s \in {"etc", "My Cat"}}

DirectWrite ==
    \E cm \in RecordOfStrings :
        LET r == [op |-> "write", body |-> "ok", postId |-> Path(FALSE, <<"a.md">>),
                  frontmatter |-> BaseFm, content |-> "text", categoryMappings |-> cm]
        IN  /\ Apply(r, writeHandler(Now0, tz, r))
            /\ UNCHANGED clientVars

DirectCreate ==
    \E cm \in RecordOfStrings :
        LET r == [op |-> "create", body |-> "ok", title |-> <<"a">>,
                  categories |-> <<"x">>, tags |-> <<>>, draft |-> TRUE,
                  categoryMappings |-> cm]
        IN  /\ Apply(r, createHandler(Now0, tz, categoryMap, r))
            /\ UNCHANGED clientVars

NextDirect ==
    \/ DirectWrite
    \/ DirectCreate

SpecDirect == Init /\ [][NextDirect]_vars

(***************************************************************************)
(* CreatePostDialog and useCustomCategories.  The server's answer to the   *)
(* create request is an input of the dialog; createHandler is the server's *)
(* side of it.                                                             *)
(***************************************************************************)
\* data.categories of the dashboard: the buttons of existing categories
ExistingCategories == <<"x">>

\* texts typed into the custom category input
TypedNames == {"", " ", "x", "y", " y"}

\* String.prototype.trim on the typed texts
Trim(text) == IF text = " " THEN "" ELSE IF text = " y" THEN "y" ELSE text

\* texts typed into a chip's slug input
TypedSlugs == {"misc", "My Cat", ""}

RECURSIVE Without(_, _)
\* prev.filter((c) => c !== name)
Without(names, name) ==
    IF names = <<>> THEN <<>>
    ELSE IF Head(names) = name THEN Without(Tail(names), name)
         ELSE <<Head(names)>> \o Without(Tail(names), name)

RECURSIVE WithoutNamed(_, _)
\* prev.filter((c) => c.name !== name)
WithoutNamed(customs, name) ==
    IF customs = <<>> THEN <<>>
    ELSE IF Head(customs).name = name THEN WithoutNamed(Tail(customs), name)
         ELSE <<Head(customs)>> \o WithoutNamed(Tail(customs), name)

addCustomCategory(prev, name) ==
    LET trimmedName == Trim(name)
    IN  IF trimmedName = "" THEN prev
        ELSE IF \E i \in 1..Len(prev) : prev[i].name = trimmedName THEN prev
        ELSE Append(prev, Mapping(trimmedName, CategorySlug(trimmedName)))

removeCustomCategory(prev, name) == WithoutNamed(prev, name)

updateCategorySlug(prev, name, slug) ==
    [i \in 1..Len(prev) |-> IF prev[i].name = name THEN [prev[i] EXCEPT !.slug = slug]
                                                   ELSE prev[i]]

\* the categories shown as a CustomCategoryChip: the selected ones that
\* customCategories.find gives a custom category for
CustomChips(d) == Range(d.selectedCategories) \cap MapNames(d.customCategories)

\* a step of the dialog: nothing but the dialog's state changes
DialogBecomes(d) ==
    /\ client' = [client EXCEPT !.createDialog = d]
    /\ UNCHANGED <<fileVars, req, resp, editor, ogVars, inflight>>

\* the dashboard's New Post button
openCreateDialog ==
    /\ ~client.createDialog.open
    /\ DialogBecomes([client.createDialog EXCEPT !.open = TRUE])

\* a button of an existing category, or the close button of a selected
\* category that is not custom
toggleCategory ==
    LET d == client.createDialog
    IN  /\ d.open
        /\ \E category \in Range(ExistingCategories)
                           \cup (Range(d.selectedCategories) \ MapNames(d.customCategories)) :
              DialogBecomes([d EXCEPT !.selectedCategories =
                                IF category \in Range(@) THEN Without(@, category)
                                                         ELSE Append(@, category)])

handleAddCustomCategory ==
    LET d == client.createDialog
    IN  /\ d.open
        /\ \E newCategoryInput \in TypedNames :
              LET trimmed == Trim(newCategoryInput)
              IN  IF trimmed = "" THEN DialogBecomes(d)
                  ELSE DialogBecomes(
                          [d EXCEPT !.customCategories = addCustomCategory(@, trimmed),
                                    !.selectedCategories =
                                        IF trimmed \in Range(@) THEN @
                                                                ELSE Append(@, trimmed)])

\* the close button of a chip
handleRemoveCustomCategory ==
    LET d == client.createDialog
    IN  /\ d.open
        /\ \E name \in CustomChips(d) :
              DialogBecomes([d EXCEPT !.customCategories = removeCustomCategory(@, name),
                                      !.selectedCategories = Without(@, name)])

\* typing in the slug input of a chip
onSlugChange ==
    LET d == client.createDialog
    IN  /\ d.open
        /\ \E name \in CustomChips(d), slug \in TypedSlugs :
              DialogBecomes([d EXCEPT !.customCategories =
                                          updateCategorySlug(@, name, slug)])

\* the dialog after handleClose
Closed(d) == [d EXCEPT !.open = FALSE, !.selectedCategories = <<>>,
                       !.customCategories = <<>>]

\* Cancel, Escape or a click outside the dialog
handleClose ==
    /\ client.createDialog.open
    /\ DialogBecomes(Closed(client.createDialog))

\* onSubmit up to its fetch: the request is sent
onSubmit ==
    LET d == client.createDialog
    IN  /\ d.open /\ ~d.isSubmitting
        /\ req' = [op |-> "create", body |-> "ok", title |-> <<"a">>,
                   categories |-> d.selectedCategories, tags |-> <<>>, draft |-> TRUE,
                   categoryMappings |-> d.customCategories]
        /\ resp' = NoResp
        /\ client' = [client EXCEPT !.createDialog.isSubmitting = TRUE]
        /\ UNCHANGED <<fileVars, editor, ogVars, inflight>>

\* onSubmit from the answer on: a 201 closes the dialog, any other answer
\* leaves it as it is
createAnswered ==
    LET d == client.createDialog
    IN  /\ d.isSubmitting
        /\ \E status \in {201, 409, 500} :
              /\ resp' = [status |-> status]
              /\ client' = [client EXCEPT !.createDialog =
                              [(IF status = 201 THEN Closed(d) ELSE d)
                                  EXCEPT !.isSubmitting = FALSE]]
        /\ UNCHANGED <<fileVars, req, editor, ogVars, inflight>>

NextCreateDialog ==
    \/ openCreateDialog
    \/ toggleCategory
    \/ handleAddCustomCategory
    \/ handleRemoveCustomCategory
    \/ onSlugChange
    \/ handleClose
    \/ onSubmit
    \/ createAnswered

SpecCreateDialog == Init /\ [][NextCreateDialog]_vars

(***************************************************************************)
(* Two requests on one post, step by step.  Each handler runs from one     *)
(* await to the next; fs.writeFile opens the file, which truncates it,     *)
(* and writes from offset 0 in a later step.                               *)
(***************************************************************************)
RacePostId == Path(FALSE, <<"a.md">>)
RaceLoc == <<"a.md">>

\* a file open() has truncated
EmptyFile ==
    PostFile(FM(TV("absent", <<>>), Scalar(FALSE, Absent), Scalar(FALSE, Absent),
                CV("absent", <<>>), GV("absent", <<>>), BV("absent", FALSE),
                BV("absent", FALSE), BV("absent", FALSE)),
             "")

\* a file that starts with the bytes of one write and ends with the tail
\* of a longer, earlier one
TornFile(head, tail) == [kind |-> "torn", head |-> head, tail |-> tail]

\* the size of a post file: its frontmatter keys and its body
Bytes(file) ==
    IF file.kind # "post" THEN 0
    ELSE Cardinality({k \in {"title", "categories", "tags", "draft", "sticky", "catalog"} :
                        file.fm[k].t # "absent"})
         + Cardinality({k \in {"date", "updated"} : file.fm[k].v.t # "absent"})
         + (IF file.body = "" THEN 0 ELSE 1)

\* a write at offset 0 of a file that is open without a further truncation
WriteAtStart(disk, out) ==
    IF Bytes(disk) > Bytes(out) THEN TornFile(out, disk) ELSE out

\* the same for the lines of the config
WriteLinesAtStart(disk, out) ==
    IF Len(disk) > Len(out) THEN out \o SubSeq(disk, Len(out) + 1, Len(disk)) ELSE out

RaceFm ==
    FM(TV("str", <<"a">>), DV("local", 1), Absent, CV("absent", <<>>), GV("absent", <<>>),
       BV("absent", FALSE), BV("absent", FALSE), BV("absent", FALSE))

\* well-formed requests on the post: the toggles, and writes of a long and
\* of a short file, with and without new categories
RaceRequests ==
    {[op |-> op, body |-> "ok", postId |-> RacePostId] : op \in {"toggle-draft", "toggle-sticky"}}
    \cup {[op |-> "write", body |-> "ok", postId |-> RacePostId, frontmatter |-> fm,
           content |-> "text", categoryMappings |-> cm] :
            fm \in {BaseFm, RaceFm},
            cm \in {<<>>, <<Mapping("y", "etc")>>, <<Mapping("y", "misc"), Mapping("z", "misc")>>}}

InFlight(pc, r, out, cfg, rsp, overlap, order, cfgOrder) ==
    [pc |-> pc, r |-> r, out |-> out, cfg |-> cfg, resp |-> rsp, overlap |-> overlap,
     order |-> order, cfgOrder |-> cfgOrder]

\* the request is between its arrival and its answer
Running(f) == f.pc \notin {"idle", "done"}

\* the handler run alone on the filesystem st
Alone(st, z, r) ==
    IF r.op = "write" THEN writeHandler(st, z, r)
    ELSE IF r.op = "toggle-draft" THEN toggleDraftHandler(st, r)
    ELSE toggleStickyHandler(st, r)

\* the request arrives and passes validation; a write has its file content
\* ready, a toggle has to read the file first
Arrive(i) ==
    /\ inflight[i] = Idle
    /\ i = 2 => inflight[1] # Idle
    /\ \E r \in RaceRequests :
        LET overlap == \E j \in Slots : Running(inflight[j])
            out == IF r.op = "write"
                   THEN writeHandler(Now0, tz, [r EXCEPT !.categoryMappings = <<>>]).st.tree[RaceLoc]
                   ELSE NoFile
            pc == IF r.op # "write" THEN "read"
                  ELSE IF r.categoryMappings # <<>> THEN "cfgread" ELSE "open"
        IN  inflight' =
                [j \in Slots |->
                    IF j = i THEN InFlight(pc, r, out, <<>>, NoResp, overlap, 0, 0)
                    ELSE IF Running(inflight[j]) THEN [inflight[j] EXCEPT !.overlap = TRUE]
                    ELSE inflight[j]]
    /\ UNCHANGED <<fileVars, req, resp, clientVars, ogVars>>

\* the request is answered
Answer(i, f, rsp) ==
    /\ inflight' = [inflight EXCEPT ![i] = [f EXCEPT !.pc = "done", !.resp = rsp]]
    /\ req' = f.r
    /\ resp' = rsp

\* await fs.readFile(filePath) of a toggle, and what it makes of the file
ReadFile(i) ==
    /\ inflight[i].pc = "read"
    /\ LET f == inflight[i]
           o == Alone(Now0, tz, f.r)
       IN  IF o.resp.status = 200
           THEN /\ inflight' = [inflight EXCEPT ![i] = [f EXCEPT !.pc = "open",
                                                                !.out = o.st.tree[RaceLoc],
                                                                !.resp = o.resp]]
                /\ UNCHANGED <<req, resp>>
           ELSE Answer(i, f, o.resp)
    /\ UNCHANGED <<fileVars, clientVars, ogVars>>

\* fs.writeFile(filePath, ...): the open
OpenFile(i) ==
    /\ inflight[i].pc = "open"
    /\ inflight' = [inflight EXCEPT ![i].pc = "write"]
    /\ tree' = [tree EXCEPT ![RaceLoc] = EmptyFile]
    /\ UNCHANGED <<outside, config, categoryMap, tz, accessed, req, resp, clientVars, ogVars>>

\* fs.writeFile(filePath, ...): the write; the request is answered
WriteFileStep(i) ==
    /\ inflight[i].pc = "write"
    /\ LET f == inflight[i]
           order == 1 + Cardinality({j \in Slots : inflight[j] # Idle /\ inflight[j].order > 0})
       IN  /\ tree' = [tree EXCEPT ![RaceLoc] = WriteAtStart(@, f.out)]
           /\ Answer(i, [f EXCEPT !.order = order],
                     IF f.r.op = "write" THEN [status |-> 200, success |-> TRUE]
                     ELSE f.resp)
    /\ UNCHANGED <<outside, config, categoryMap, tz, accessed, clientVars, ogVars>>

\* addCategoryMappings: await fs.readFile(configPath), and the lines it
\* makes of the content
ReadConfig(i) ==
    /\ inflight[i].pc = "cfgread"
    /\ LET f == inflight[i]
       IN  IF AddMappingsThrows(config)
           THEN Answer(i, f, Err(500, "Internal server error"))
           ELSE /\ inflight' =
                    [inflight EXCEPT ![i] =
                        IF FilterNew(f.r.categoryMappings, MapNames(ConfigCategoryMap(config))) = <<>>
                        THEN [f EXCEPT !.pc = "open"]
                        ELSE [f EXCEPT !.pc = "cfgopen",
                                       !.cfg = addCategoryMappings(config, f.r.categoryMappings)]]
                /\ UNCHANGED <<req, resp>>
    /\ UNCHANGED <<fileVars, clientVars, ogVars>>

\* addCategoryMappings: fs.writeFile(configPath, ...), the open
OpenConfig(i) ==
    /\ inflight[i].pc = "cfgopen"
    /\ inflight' = [inflight EXCEPT ![i].pc = "cfgwrite"]
    /\ config' = <<>>
    /\ UNCHANGED <<tree, outside, categoryMap, tz, accessed, req, resp, clientVars, ogVars>>

\* addCategoryMappings: fs.writeFile(configPath, ...), the write
WriteConfig(i) ==
    /\ inflight[i].pc = "cfgwrite"
    /\ LET f == inflight[i]
           order == 1 + Cardinality({j \in Slots : inflight[j] # Idle /\ inflight[j].cfgOrder > 0})
       IN  /\ config' = WriteLinesAtStart(config, f.cfg)
           /\ inflight' = [inflight EXCEPT ![i] = [f EXCEPT !.pc = "open", !.cfgOrder = order]]
    /\ UNCHANGED <<tree, outside, categoryMap, tz, accessed, req, resp, clientVars, ogVars>>

NextRace ==
    \E i \in Slots :
        \/ Arrive(i)
        \/ ReadFile(i)
        \/ OpenFile(i)
        \/ WriteFileStep(i)
        \/ ReadConfig(i)
        \/ OpenConfig(i)
        \/ WriteConfig(i)

SpecRace == Init /\ [][NextRace]_vars

(***************************************************************************)
(* The list handler over content trees of up to MaxFiles files             *)
(***************************************************************************)
ListLocs == {FileOrder[i] : i \in 1..MaxFiles}

ListFm(title, date, updated, categories, tags, draft) ==
    FM(title, Scalar(FALSE, date), Scalar(FALSE, updated), categories, tags, draft,
       BV("absent", FALSE), BV("bool", TRUE))

\* the files a content tree holds: well-formed posts, posts whose frontmatter
\* holds values of other types, and files that cannot be read or parsed
ListFiles ==
    { PostFile(ListFm(TV("str", <<"a">>), DV("local", 1), Absent,
                      CV("list", <<Item(FALSE, <<"x">>)>>), GV("list", <<"p">>),
                      BV("absent", FALSE)), "text"),
      PostFile(ListFm(TV("str", <<"A", "b">>), DV("local", 2), DV("local", 3),
                      CV("list", <<Item(TRUE, <<"x", "y">>)>>), GV("list", <<"p", "q">>),
                      BV("bool", TRUE)), "text"),
      PostFile(ListFm(TV("str", <<"B">>), DV("iso", 1), Absent,
                      CV("list", <<Item(FALSE, <<"x">>), Item(TRUE, <<"x", "y">>)>>),
                      GV("list", <<"p", "p">>), BV("str", TRUE)), "text"),
      PostFile(ListFm(TV("absent", <<>>), Absent, DV("text", 0),
                      CV("str", <<Item(FALSE, <<"y">>)>>), GV("str", <<"q">>),
                      BV("bool", FALSE)), "text"),
      PostFile(ListFm(TV("num", <<>>), DV("text", 0), Absent,
                      CV("absent", <<>>), GV("absent", <<>>), BV("bool", TRUE)), "text"),
      PostFile(ListFm(TV("str", <<"a">>), DV("num", 7), Absent,
                      CV("list", <<Item(FALSE, <<"y">>)>>), GV("list", <<"q">>),
                      BV("absent", FALSE)), "text"),
      PostFile(ListFm(TV("str", <<"b">>), DV("local", 0), Absent,
                      CV("num", <<>>), GV("absent", <<>>), BV("absent", FALSE)), "text"),
      CorruptFile,
      UnreadableFile }

Queries ==
    {Query(category, tag, status, search, sort, order) :
        category \in {"", "x"}, tag \in {"", "p"},
        status \in {"", "draft", "published", "all"},
        search \in {<<>>, <<"B">>},
        sort \in {"", "title", "updated", "size"},
        order \in {"", "asc"}}

InitList ==
    /\ tree \in [ListLocs -> ListFiles \cup {NoFile}]
    /\ outside = {}
    /\ config = InitialConfig
    /\ categoryMap = LoadedCategoryMap(config)
    /\ tz = ZoneUTC
    /\ req = [op |-> "none"]
    /\ resp = NoResp
    /\ accessed = {}
    /\ ClientInit
    /\ OgInit
    /\ inflight = NoRequests

\* the handler reads the tree and changes nothing, so a request is answered
\* the same whatever requests came before it: one request per tree
ListReq ==
    \E q \in Queries :
        /\ q.op = "list"
        /\ req.op = "none"
        /\ req' = q
        /\ resp' = listHandler(tree, tz, q)
        /\ UNCHANGED <<tree, outside, config, categoryMap, tz, accessed, clientVars, ogVars, inflight>>

SpecList == InitList /\ [][ListReq]_vars

(***************************************************************************)
(* The post editor while a save is on its way: performSave awaits          *)
(* writePost, and the editor stays usable until the promise settles        *)
(***************************************************************************)
\* handleSave up to the await of writePost: performSave sets isSaving and
\* sends the write built from the frontmatter and content of this moment
saveSent ==
    /\ ~editor.isSaving
    /\ LET newCategories == detectNewCategories(editor.currentCategories, client.categoryMap)
       IN  editor' = IF newCategories # <<>>
                     THEN [editor EXCEPT !.pendingCategoryMappings = newCategories,
                                         !.showCategoryDialog = TRUE]
                     ELSE [editor EXCEPT !.isSaving = TRUE,
                                         !.sent = SaveRequest(editor, tz, <<>>)]
    /\ UNCHANGED <<fileVars, req, resp, client, ogVars, inflight>>

\* the server handles the write and writePost resolves or throws on the
\* answer: performSave clears hasUnsavedChanges on success, and isSaving
writePostSettles ==
    /\ editor.isSaving
    /\ LET o == writeHandler(Now0, tz, editor.sent)
       IN  /\ Apply(editor.sent, o)
           /\ editor' = [editor EXCEPT !.isSaving = FALSE,
                                       !.sent = [op |-> "none"],
                                       !.hasUnsavedChanges =
                                           IF o.resp.status = 200 THEN FALSE ELSE @]
    /\ UNCHANGED client

\* the request does not reach the server: fetch rejects, performSave
\* reports the error and clears isSaving
writePostRejects ==
    /\ editor.isSaving
    /\ editor' = [editor EXCEPT !.isSaving = FALSE, !.sent = [op |-> "none"]]
    /\ UNCHANGED <<fileVars, req, resp, client, ogVars, inflight>>

\* a change of the title field of the form
EditTitle ==
    /\ TRUE
    /\ EditFormTo(FormTitles, {editor.form.categories})

\* the editor opens on a post with a body or with an empty body, after the
\* dashboard fetched the configuration
InitSaving ==
    /\ tree \in {[l \in Locs |-> IF l = EditorPostId.segs THEN post ELSE NoFile] :
                    post \in {InitialPost, [InitialPost EXCEPT !.body = ""]}}
    /\ outside = {}
    /\ config = InitialConfig
    /\ categoryMap = LoadedCategoryMap(config)
    /\ tz = ZoneUTC
    /\ req = [op |-> "none"]
    /\ resp = NoResp
    /\ accessed = {}
    /\ editor = InitialEditor
    /\ client = [cachedConfig |-> TRUE, categoryMap |-> categoryMap,
                 dashboard |-> InitialDashboard, createDialog |-> ClosedDialog]
    /\ OgInit
    /\ inflight = NoRequests

NextSaving ==
    \/ LoadPost
    \/ EditTitle
    \/ EditContent
    \/ saveSent
    \/ writePostSettles
    \/ writePostRejects

SpecSaving == InitSaving /\ [][NextSaving]_vars

(***************************************************************************)
(* Two create requests whose handlers interleave at their awaits           *)
(***************************************************************************)
\* creates of a post "a" at the content root or in the category x, as a
\* draft or not, with or without a tag
CreateRaceRequests ==
    {[op |-> "create", body |-> "ok", title |-> <<"a">>, categories |-> cs, tags |-> ts,
      draft |-> d, categoryMappings |-> <<>>] :
        cs \in {<<>>, <<"x">>}, ts \in {<<>>, <<"p">>}, d \in BOOLEAN}

Creating(pc, r, postId, rsp) == [pc |-> pc, r |-> r, postId |-> postId, resp |-> rsp]

\* the request arrives: its body is parsed and validated, and the target
\* path is generated and checked
CreateArrive(i) ==
    /\ inflight[i] = Idle
    /\ i = 2 => inflight[1] # Idle
    /\ \E r \in CreateRaceRequests :
        LET postId == generateFilePath(r.title, r.categories, r.categoryMappings, categoryMap)
        IN  IF ~isPathSafe(postId)
            THEN Answer(i, Creating("done", r, postId, NoResp), Err(400, "Invalid file path"))
            ELSE /\ inflight' = [inflight EXCEPT ![i] = Creating("access", r, postId, NoResp)]
                 /\ UNCHANGED <<req, resp>>
    /\ UNCHANGED <<fileVars, clientVars, ogVars>>

\* await fs.access(filePath): 409 when the file exists
CreateAccess(i) ==
    /\ inflight[i].pc = "access"
    /\ LET f == inflight[i]
       IN  /\ accessed' = accessed \cup {f.postId}
           /\ IF FileAt(Now0, f.postId) # NoFile
              THEN Answer(i, f, [status |-> 409, error |-> "File already exists",
                                 postId |-> f.postId])
              ELSE /\ inflight' = [inflight EXCEPT ![i].pc = "write"]
                   /\ UNCHANGED <<req, resp>>
    /\ UNCHANGED <<tree, outside, config, categoryMap, tz, clientVars, ogVars>>

\* await fs.mkdir, then fs.writeFile(filePath, content) and the answer 201
CreateWrite(i) ==
    /\ inflight[i].pc = "write"
    /\ LET f == inflight[i]
           st == WriteFile(Now0, f.postId, generateFrontmatter(tz, f.r))
       IN  /\ tree' = st.tree
           /\ outside' = st.outside
           /\ accessed' = accessed \cup st.accessed
           /\ Answer(i, f, [status |-> 201, success |-> TRUE, postId |-> f.postId])
    /\ UNCHANGED <<config, categoryMap, tz, clientVars, ogVars>>

\* the content directory is empty or holds the post a.md
InitCreateRace ==
    /\ tree \in {[l \in Locs |-> NoFile],
                 [l \in Locs |-> IF l = <<"a.md">> THEN InitialPost ELSE NoFile]}
    /\ outside = {}
    /\ config = InitialConfig
    /\ categoryMap = LoadedCategoryMap(config)
    /\ tz = ZoneUTC
    /\ req = [op |-> "none"]
    /\ resp = NoResp
    /\ accessed = {}
    /\ ClientInit
    /\ OgInit
    /\ inflight = NoRequests

NextCreateRace ==
    \E i \in Slots :
        \/ CreateArrive(i)
        \/ CreateAccess(i)
        \/ CreateWrite(i)

SpecCreateRace == InitCreateRace /\ [][NextCreateRace]_vars

(***************************************************************************)
(* The toggles over posts with every kind of flag value                    *)
(***************************************************************************)
\* a flag that is missing, true, false, or a string
FlagValues == {BV("absent", FALSE), BV("bool", TRUE), BV("bool", FALSE), BV("str", TRUE)}

TogglePosts ==
    {PostFile(FM(TV("str", <<"a">>), date, Scalar(FALSE, Absent),
                 CV("list", <<Item(TRUE, <<"x">>)>>), GV("list", <<"p">>),
                 draft, sticky, BV("bool", TRUE)), body) :
        date \in {Scalar(FALSE, DV("local", 2)), Scalar(FALSE, DV("iso", 1)),
                  Scalar(TRUE, DV("iso", 1))},
        draft \in FlagValues, sticky \in FlagValues, body \in {"text", ""}}

InitToggle ==
    /\ tree \in {[l \in Locs |-> IF l = <<"a.md">> THEN post ELSE NoFile] :
                    post \in TogglePosts}
    /\ outside = {}
    /\ config = InitialConfig
    /\ categoryMap = LoadedCategoryMap(config)
    /\ tz = ZoneUTC
    /\ req = [op |-> "none"]
    /\ resp = NoResp
    /\ accessed = {}
    /\ ClientInit
    /\ OgInit
    /\ inflight = NoRequests

NextToggle ==
    \/ ToggleDraftReq(ReqPaths)
    \/ ToggleStickyReq(ReqPaths)

SpecToggle == InitToggle /\ [][NextToggle]_vars

(***************************************************************************)
(* The dashboard: every change of a filter or of the sort refetches the    *)
(* list, and a response is displayed when it arrives                       *)
(***************************************************************************)
\* the params memo: the query fetchData sends for a dashboard state
Params(d) ==
    Query("", "", IF d.status = "all" THEN "" ELSE d.status, <<>>, d.sortField, d.sortOrder)

\* the effect on a new fetchData: setError(null), and listPosts(params) is
\* sent; the request waits in a free place
fetchData(d) ==
    /\ \E i \in Slots :
        /\ inflight[i] = Idle
        /\ \A j \in Slots : j < i => inflight[j] # Idle
        /\ inflight' = [inflight EXCEPT ![i] = [pc |-> "list", q |-> Params(d)]]
    /\ client' = [client EXCEPT !.dashboard = [d EXCEPT !.error = FALSE]]
    /\ UNCHANGED <<fileVars, req, resp, editor, ogVars>>

\* setStatus from the status filter
setStatus ==
    \E status \in {"all", "draft", "published"} \ {client.dashboard.status} :
        fetchData([client.dashboard EXCEPT !.status = status])

\* handleSort(field) from a column header
handleSort ==
    \E field \in {"date", "title"} :
        fetchData(IF field = client.dashboard.sortField
                  THEN [client.dashboard EXCEPT
                            !.sortOrder = IF @ = "asc" THEN "desc" ELSE "asc"]
                  ELSE [client.dashboard EXCEPT !.sortField = field, !.sortOrder = "desc"])

\* a list request is answered: fetchData resumes after its await and calls
\* setData(result), or setError when listPosts threw
listSettles ==
    \E i \in Slots :
        /\ inflight[i] # Idle
        /\ LET q == inflight[i].q
               o == listHandler(tree, tz, q)
           IN  /\ req' = q
               /\ resp' = o
               /\ client' = IF o.status = 200
                             THEN [client EXCEPT !.dashboard.data =
                                                    [params |-> q, response |-> o]]
                             ELSE [client EXCEPT !.dashboard.error = TRUE]
        /\ inflight' = [inflight EXCEPT ![i] = Idle]
        /\ UNCHANGED <<fileVars, editor, ogVars>>

\* the dashboard has mounted: its first fetchData is on its way
InitDashboard ==
    /\ tree = [l \in Locs |-> IF l = <<"a.md">> THEN InitialPost ELSE NoFile]
    /\ outside = {}
    /\ config = InitialConfig
    /\ categoryMap = LoadedCategoryMap(config)
    /\ tz = ZoneUTC
    /\ req = [op |-> "none"]
    /\ resp = NoResp
    /\ accessed = {}
    /\ ClientInit
    /\ OgInit
    /\ inflight = [i \in Slots |-> IF i = 1 THEN [pc |-> "list", q |-> Params(InitialDashboard)]
                                    ELSE Idle]

NextDashboard ==
    \/ setStatus
    \/ handleSort
    \/ listSettles

SpecDashboard == InitDashboard /\ [][NextDashboard]_vars

(***************************************************************************)
(* The list handler over content trees of up to MaxRecent posts, more than *)
(* the statistics keep as recent                                           *)
(***************************************************************************)
MaxRecent == 11

\* a published post without `updated` and a draft that was updated later
RecentFiles ==
    { PostFile(ListFm(TV("str", <<"a">>), DV("local", 1), Absent,
                      CV("list", <<Item(FALSE, <<"x">>)>>), GV("list", <<"p">>),
                      BV("absent", FALSE)), "text"),
      PostFile(ListFm(TV("str", <<"B">>), DV("local", 0), DV("local", 2),
                      CV("list", <<Item(FALSE, <<"y">>)>>), GV("list", <<"q">>),
                      BV("bool", TRUE)), "text") }

RecentQueries ==
    {Query("", "", status, <<>>, by[1], by[2]) :
        status \in {"", "draft"}, by \in {<<"", "">>, <<"title", "asc">>}}

\* the first n files of the enumeration exist
InitRecent ==
    /\ \E n \in 0..MaxRecent :
          \E files \in [1..n -> RecentFiles] :
              tree = [l \in {FileOrder[i] : i \in 1..MaxRecent} |->
                         IF \E i \in 1..n : FileOrder[i] = l
                         THEN files[CHOOSE i \in 1..n : FileOrder[i] = l]
                         ELSE NoFile]
    /\ outside = {}
    /\ config = InitialConfig
    /\ categoryMap = LoadedCategoryMap(config)
    /\ tz = ZoneUTC
    /\ req = [op |-> "none"]
    /\ resp = NoResp
    /\ accessed = {}
    /\ ClientInit
    /\ OgInit
    /\ inflight = NoRequests

RecentListReq ==
    \E q \in RecentQueries :
        /\ req.op = "none"
        /\ req' = q
        /\ resp' = listHandler(tree, tz, q)
        /\ UNCHANGED <<tree, outside, config, categoryMap, tz, accessed, clientVars, ogVars, inflight>>

SpecRecent == InitRecent /\ [][RecentListReq]_vars

(***************************************************************************)
(* isPathSafe on its own: every path of up to MaxSegs segments             *)
(***************************************************************************)
InitPath ==
    /\ tree = [l \in Locs |-> NoFile]
    /\ outside = {}
    /\ config = InitialConfig
    /\ categoryMap = LoadedCategoryMap(config)
    /\ tz = ZoneUTC
    /\ req \in {[op |-> "isPathSafe", filePath |-> p] : p \in AllPaths}
    /\ resp = NoResp
    /\ accessed = {}
    /\ ClientInit
    /\ OgInit
    /\ inflight = NoRequests

CheckPath ==
    /\ resp = NoResp
    /\ resp' = [status |-> 0, safe |-> isPathSafe(req.filePath)]
    /\ UNCHANGED <<tree, outside, config, categoryMap, tz, req, accessed, clientVars, ogVars,
                   inflight>>

SpecPath == InitPath /\ [][CheckPath]_vars

(***************************************************************************)
(* Claims                                                                  *)
(***************************************************************************)
\* the path a request asks the handler to work on
RequestPath(r) ==
    IF r.op = "create"
    THEN generateFilePath(r.title, r.categories, r.categoryMappings, categoryMap)
    ELSE r.postId

\* the request got as far as the path check
ReachesPathCheck(r) ==
    /\ r.op \in {"read", "write", "create", "toggle-draft", "toggle-sticky"}
    /\ r.op # "read" => r.body = "ok"
    /\ r.op = "read" => (r.postId.segs # <<>> \/ r.postId.abs)

\* C1: every path a handler hands to the filesystem was accepted by
\* isPathSafe, and a request whose path isPathSafe rejects is answered 400
\* and changes neither the content tree nor the site config
C1_OnlySafePathsReachFilesystem ==
    [][/\ \A p \in accessed' : isPathSafe(p)
       /\ (ReachesPathCheck(req') /\ ~isPathSafe(RequestPath(req')))
            => /\ resp'.status = 400
               /\ accessed' = {}
               /\ tree' = tree
               /\ outside' = outside
               /\ config' = config]_vars

\* C1 witness: a write with a well-formed body and a traversal path was answered 400
C1_Witness ==
    /\ req.op = "write"
    /\ req.body = "ok"
    /\ req.postId = Path(FALSE, <<"..", "..", "etc", "a.md">>)
    /\ resp.status = 400

\* C2: isPathSafe rejects exactly the paths that, normalized, have a
\* parent-directory segment or are absolute, and accepts every other path
C2_RejectsExactlyEscapingPaths ==
    resp # NoResp => (resp.safe <=> ~EscapesRoot(req.filePath))

\* a date or updated value the claim calls unparsable: a non-empty string
\* that parses neither as local time nor as ISO-8601
Unparsable(v) == IsString(v) /\ v.t # "empty" /\ ~ParsesLocal(v) /\ ~ParsesISO(v)

\* a write request that reaches the date loop
ReachesDateLoop(r) ==
    /\ r.op = "write"
    /\ r.body = "ok"
    /\ isPathSafe(r.postId)
    /\ hasValidMarkdownExtension(r.postId)

\* C3: a write whose date or updated is a non-empty string that parses in
\* neither format is answered 400 with that value, and changes neither the
\* post file nor the site config
C3_UnparsableDateRejected ==
    [][(/\ ReachesDateLoop(req')
        /\ (Unparsable(req'.frontmatter.date) \/ Unparsable(req'.frontmatter.updated)))
         => /\ resp'.status = 400
            /\ resp'.echo = (IF Unparsable(req'.frontmatter.date)
                             THEN req'.frontmatter.date ELSE req'.frontmatter.updated)
            /\ tree' = tree
            /\ config' = config]_vars

\* the date and updated a read of the stored file returns
StoredDates(file) ==
    <<ToJson(LoadScalar(HandlerSchema, file.fm.date)),
      ToJson(LoadScalar(HandlerSchema, file.fm.updated))>>

\* C4: a successful write of a local-time string x as date (or updated)
\* stores a value that reads back as x, toggle-draft and toggle-sticky leave
\* what reads back unchanged, and read returns it, in every zone
C4_LocalDateRoundTrip ==
    [][/\ (ReachesDateLoop(req') /\ resp'.status = 200)
            => LET file == tree'[FileLocation(req'.postId)]
               IN  /\ req'.frontmatter.date.t = "local"
                        => StoredDates(file)[1] = req'.frontmatter.date
                   /\ req'.frontmatter.updated.t = "local"
                        => StoredDates(file)[2] = req'.frontmatter.updated
       /\ (req'.op \in {"toggle-draft", "toggle-sticky"} /\ resp'.status = 200)
            => StoredDates(tree'[FileLocation(req'.postId)])
                 = StoredDates(tree[FileLocation(req'.postId)])
       /\ (req'.op = "read" /\ resp'.status = 200)
            => <<resp'.frontmatter.date, resp'.frontmatter.updated>>
                 = StoredDates(tree[FileLocation(req'.postId)])]_vars

Ids(posts) == {posts[i].id : i \in 1..Len(posts)}

\* a list request without filters
NoFilters(q) ==
    q.op = "list" /\ q.category = "" /\ q.tag = "" /\ q.status \in {"", "all"} /\ q.search = <<>>

\* C5: every list request succeeds, whatever its filter and sort parameters,
\* and without filters it returns each post file that can be turned into a
\* list item exactly once and no other
C5_EveryParseablePostListedOnce ==
    req.op = "list"
        => /\ resp.status = 200
           /\ NoFilters(req)
                => /\ Len(resp.posts) = Cardinality(Ids(resp.posts))
                   /\ Ids(resp.posts)
                        = {l \in ListLocs : parsePostFile(tz, l, tree[l]) # NullItem}

\* C6: every list request, whatever its parameters, answers with statistics
\* whose total is the number of post files that parsed and is published plus
\* draft, the same statistics as the request without parameters gets, while
\* the top-level total counts the posts returned
C6_StatsCoverEveryParsedPost ==
    req.op = "list"
        => /\ resp.status = 200
           /\ resp.stats.total = Len(AllPosts(tree, tz))
           /\ resp.stats.total = resp.stats.published + resp.stats.draft
           /\ resp.stats = calculateStats(AllPosts(tree, tz))
           /\ resp.total = Len(resp.posts)

\* the request with its status parameter replaced
WithStatus(q, status) == [q EXCEPT !.status = status]

\* C7: on one content tree the ids listed with status=draft and with
\* status=published are disjoint and together are the ids listed without a
\* status; the three requests are answered whenever no search is given and
\* the sort is not by title
C7_DraftAndPublishedPartition ==
    req.op = "list"
        => LET d == listHandler(tree, tz, WithStatus(req, "draft"))
               p == listHandler(tree, tz, WithStatus(req, "published"))
               n == listHandler(tree, tz, WithStatus(req, ""))
           IN  /\ resp = listHandler(tree, tz, req)
               /\ (req.search = <<>> /\ req.sort # "title")
                    => d.status = 200 /\ p.status = 200 /\ n.status = 200
               /\ (d.status = 200 /\ p.status = 200 /\ n.status = 200)
                    => /\ Ids(d.posts) \cap Ids(p.posts) = {}
                       /\ Ids(d.posts) \cup Ids(p.posts) = Ids(n.posts)

\* C7 witness: a status=draft request was answered with a draft, on a tree
\* that also holds a published post
C7_Witness ==
    /\ req.op = "list"
    /\ req.status = "draft"
    /\ resp.status = 200
    /\ resp.posts # <<>>
    /\ listHandler(tree, tz, WithStatus(req, "published")).status = 200
    /\ listHandler(tree, tz, WithStatus(req, "published")).posts # <<>>

\* the post passes every filter the request supplies
Satisfies(post, q) ==
    /\ q.category # "" => Member(post.categories, q.category)
    /\ q.tag # "" => Member(post.tags, q.tag)
    /\ q.status = "draft" => post.draft
    /\ q.status = "published" => ~post.draft
    /\ q.search # <<>>
         => post.title.t = "str" /\ Includes(ToLower(post.title.s), ToLower(q.search))

\* C8: a list request returns exactly the parsed posts that pass every
\* supplied filter, each once
C8_PostsPassEveryFilter ==
    req.op = "list"
        => /\ resp.status = 200
           /\ Len(resp.posts) = Cardinality(Ids(resp.posts))
           /\ Ids(resp.posts)
                = {AllPosts(tree, tz)[i].id : i \in
                     {k \in 1..Len(AllPosts(tree, tz)) : Satisfies(AllPosts(tree, tz)[k], req)}}

\* a stored date the read path cannot parse: missing, malformed, or not a string
DateUnparsable(v) == v.t \in {"absent", "null", "empty", "blank", "text", "textT", "num", "bool"}

\* C9: in an unfiltered listing every post file whose frontmatter parses (and
\* whose categories can be read) has an item, and the item's date is the
\* current time when the stored date is missing or cannot be parsed
C9_EveryPostListedWithADate ==
    (NoFilters(req) /\ resp.status = 200)
        => \A l \in ListLocs :
             (tree[l].kind = "post" /\ ~CategoriesThrow(tree[l].fm.categories))
                => \E i \in 1..Len(resp.posts) :
                     /\ resp.posts[i].id = l
                     /\ DateUnparsable(tree[l].fm.date.v) => resp.posts[i].date = Now

NoDuplicates(names) == \A i, j \in 1..Len(names) : names[i] = names[j] => i = j

\* the stats entries count, for each name, the posts that carry it
CountsPosts(entries, posts, key) ==
    \A e \in 1..Len(entries) :
        entries[e].count
          = Cardinality({k \in 1..Len(posts) : Member(posts[k][key], entries[e].name)})

\* C10: the categories and tags of every list item hold no name twice, and
\* each categoryStats and tagStats entry is the number of posts with that name
C10_NamesCountedOncePerPost ==
    (req.op = "list" /\ resp.status = 200)
        => /\ \A i \in 1..Len(resp.posts) :
                NoDuplicates(resp.posts[i].categories) /\ NoDuplicates(resp.posts[i].tags)
           /\ CountsPosts(resp.stats.categoryStats, AllPosts(tree, tz), "categories")
           /\ CountsPosts(resp.stats.tagStats, AllPosts(tree, tz), "tags")

\* a create request that gets as far as looking for its target file
ReachesExistenceCheck(r) ==
    /\ r.op = "create"
    /\ r.body = "ok"
    /\ isPathSafe(RequestPath(r))

\* C11: a create request whose target file exists when it is handled is
\* answered 409 and leaves the content tree, the existing file among it, and
\* the site config as they were
C11_CreateOnExistingFileChangesNothing ==
    [][(ReachesExistenceCheck(req') /\ FileAt(Now0, RequestPath(req')) # NoFile)
         => /\ resp'.status = 409
            /\ tree' = tree
            /\ outside' = outside
            /\ config' = config]_vars

\* C11 witness: a create carrying a mapping the config does not hold was
\* answered 409
C11_Witness ==
    /\ req.op = "create"
    /\ req.categoryMappings = <<Mapping("y", "etc")>>
    /\ "y" \notin MapNames(ConfigCategoryMap(config))
    /\ resp.status = 409

\* the request has a body and the body is malformed: not JSON, or JSON the
\* handler's schema rejects
Malformed(r) == r.op \in {"write", "create", "toggle-draft", "toggle-sticky"} /\ r.body # "ok"

\* a read or toggle that gets as far as reading its post file
ReachesFileRead(r) ==
    /\ r.op \in {"read", "toggle-draft", "toggle-sticky"}
    /\ ReachesPathCheck(r)
    /\ isPathSafe(r.postId)
    /\ hasValidMarkdownExtension(r.postId)

\* C12: a write, create or toggle with a malformed body is answered 400, a
\* read or toggle of a missing post file is answered 404, and 500 answers
\* only a request that is well-formed, whose post file is there and whose
\* target does not exist already
C12_ErrorTaxonomy ==
    [][/\ Malformed(req') => resp'.status = 400
       /\ (ReachesFileRead(req') /\ FileAt(Now0, req'.postId) = NoFile) => resp'.status = 404
       /\ resp'.status = 500
            => /\ ~Malformed(req')
               /\ ~(ReachesFileRead(req') /\ FileAt(Now0, req'.postId) = NoFile)
               /\ ~(ReachesExistenceCheck(req') /\ FileAt(Now0, RequestPath(req')) # NoFile)]_vars

\* the editor sends a write: handleSave found no new category, or the
\* dialog was confirmed
EditorSends ==
    \/ handleSave /\ detectNewCategories(editor.currentCategories, client.categoryMap) = <<>>
    \/ handleCategoryMappingConfirm

\* the category names of a request's frontmatter the category map lacks
Unmapped(r, cmap) ==
    {name \in Range(extractCategoryNames(r.frontmatter.categories)) : Lookup(cmap, name) = ""}

\* C13: every write the editor sends carries a slug mapping for each
\* category name of the post that is absent from the category map, whether
\* the category was typed into the form or was on the post when loaded.
C13_WritesCarryMappingsForNewCategories ==
    [][EditorSends =>
        Unmapped(req', client.categoryMap) \subseteq MapNames(req'.categoryMappings)]_vars

\* a call of addCategoryMappings has returned
Returned == req.op = "addCategoryMappings" /\ resp.status = 200

\* the entries of a category map with the name
EntriesOf(m, name) == SelectSeq(m, LAMBDA e : e.name = name)

\* C14: after addCategoryMappings(m) returns, every name of m that was
\* absent from the config's category map is in the persisted config's
\* category map exactly once, with the slug given in m, whatever the shape
\* of the config file.
C14_NewMappingsPersistedOnce ==
    Returned =>
        \A i \in 1..Len(req.mappings) :
            req.mappings[i].name \notin MapNames(ConfigCategoryMap(req.before))
                => EntriesOf(ConfigCategoryMap(config), req.mappings[i].name)
                       = <<req.mappings[i]>>

\* the lines addCategoryMappings inserts for the names the config lacks
NewLines(before, mappings) ==
    LET new == FilterNew(mappings, MapNames(ConfigCategoryMap(before)))
    IN  IF new = <<>> THEN {<<>>}
        ELSE {InsertedLines(new, indent) : indent \in {0, 2, 4}}

\* C15: addCategoryMappings leaves every mapping already in the config with
\* its slug, also when the request gives another slug for the name, and the
\* config afterwards is the config before with the new mapping lines
\* inserted at one place: no line is changed, removed or reordered.
C15_ExistingMappingsAndLinesKept ==
    Returned =>
        /\ \A name \in MapNames(ConfigCategoryMap(req.before)) :
            EntriesOf(ConfigCategoryMap(config), name)
                = EntriesOf(ConfigCategoryMap(req.before), name)
        /\ \/ config = req.before
           \/ \E k \in 0..Len(req.before) :
                \E ins \in NewLines(req.before, req.mappings) :
                    config = SubSeq(req.before, 1, k) \o ins
                             \o SubSeq(req.before, k + 1, Len(req.before))

\* a call that gave another slug for a name the config holds, and a new
\* name, on a config with comments; the new name was inserted
C15_Witness ==
    /\ Returned
    /\ CommentLine \in Range(req.before)
    /\ req.mappings = <<Mapping("x", "misc"), Mapping("y", "etc")>>
    /\ Lookup(ConfigCategoryMap(req.before), "x") = "note"
    /\ Lookup(ConfigCategoryMap(config), "y") = "etc"

\* category lists handed to detectNewCategories
CategoryLists == SeqsUpTo(CategoryNames, 2)

\* C16: once the mappings detectNewCategories(c) returns are merged into
\* the category map, detectNewCategories(c) returns nothing; and merging
\* the same mapping set a second time changes nothing, in the in-memory map
\* and, through addCategoryMappings, in the config.
C16_DetectThenMergeIsIdempotent ==
    [][LET m == ConfigCategoryMap(config)
       IN  /\ \A c \in CategoryLists :
                detectNewCategories(c, MergeMaps(m, detectNewCategories(c, m))) = <<>>
           /\ \A s \in MappingSets :
                MergeMaps(MergeMaps(m, s), s) = MergeMaps(m, s)
           /\ (Returned /\ req'.mappings = req.mappings /\ resp'.status = 200)
                => config' = config]_vars

\* C17: the mappings write and create requests have persisted to the config
\* are in the server's category map: GET /config returns them, and a later
\* create resolves a category without a slug of its own in the request to
\* the persisted slug.
C17_PersistedMappingsInServerMap ==
    [][LET persisted == ConfigCategoryMap(config)
       IN  /\ req'.op = "config" =>
                \A i \in 1..Len(persisted) :
                    Lookup(resp'.categoryMap, persisted[i].name) = persisted[i].slug
           /\ (req'.op = "create" /\ resp'.status = 201) =>
                \A i \in 1..Len(req'.categories) :
                    (/\ Lookup(req'.categoryMappings, req'.categories[i]) = ""
                     /\ Lookup(persisted, req'.categories[i]) # "")
                        => resp'.postId.segs[i] = Lookup(persisted, req'.categories[i])]_vars

\* the cache holds an entry for the exact string that is younger than 7 days
Young(cache, now, url) ==
    cache[url.text] # NoEntry /\ now - cache[url.text].timestamp < CACHE_TTL

\* C18: an og-data request for a valid URL starts an outbound fetch only
\* when the cache holds no entry for the exact string younger than 7 days:
\* a younger entry, error-tagged or not, is returned without a fetch and
\* the cache stays as it is; otherwise (no entry, or one 7 days old or
\* older) the fetch is made, and when it ends the entry is replaced by the
\* fetched record with the current timestamp.
C18_FetchOnlyWithoutYoungEntry ==
    [][/\ (OgRequest /\ req'.url \in ValidUrls) =>
            IF Young(ogCache, clock, req'.url)
            THEN /\ fetches' = fetches
                 /\ ogCache' = ogCache
                 /\ resp' = [status |-> 200, data |-> ogCache[req'.url.text].data]
            ELSE \E i \in 1..MaxFetches :
                    fetches[i] = NoFetch /\ fetches'[i] = Fetching(req'.url, ogCache)
       /\ OgFetched => ogCache'[req'.url.text] = CacheEntry(resp'.data, clock)]_vars

\* an error-tagged entry one millisecond short of 7 days old was returned
\* without a fetch
C18_Witness ==
    /\ req.op = "og-data" /\ req.fetch = "none"
    /\ resp.status = 200
    /\ resp.data.error # NoError
    /\ ogCache[req.url.text].data = resp.data
    /\ clock - ogCache[req.url.text].timestamp = CACHE_TTL - 1
    /\ \A i \in 1..MaxFetches : fetches[i] = NoFetch

\* C19: every og-data answer to a valid http(s) URL has a success status
\* and a record carrying originUrl and url; when the fetch timed out, was
\* answered non-2xx or failed on the network the record has an error field,
\* and the record answered is the record stored in the cache.
C19_FailuresAnsweredAsRecords ==
    [][/\ ((OgRequest \/ OgFetched) /\ req'.url \in ValidUrls /\ resp' # NoResp) =>
            /\ resp'.status = 200
            /\ resp'.data.originUrl = req'.url.text
            /\ resp'.data.url # ""
       /\ OgFetched =>
            /\ req'.fetch # "ok" => resp'.data.error # NoError
            /\ ogCache'[req'.url.text].data = resp'.data]_vars

\* a fetch timed out: answered 200 with the error record, which is cached
C19_Witness ==
    /\ req.op = "og-data" /\ req.fetch = "timeout"
    /\ resp.status = 200
    /\ resp.data.error = "Request timeout"
    /\ ogCache[req.url.text].data = resp.data

\* both requests have been answered, and each arrived before the other was
BothOverlapped == \A i \in Slots : inflight[i].pc = "done" /\ inflight[i].overlap

\* the requests that wrote the post last, and the config last
LastWriters == {i \in Slots : \A j \in Slots : inflight[j].order <= inflight[i].order}
LastConfigWriters ==
    {i \in Slots : inflight[i].cfgOrder > 0
                   /\ \A j \in Slots : inflight[j].cfgOrder <= inflight[i].cfgOrder}

\* the filesystem both requests started from
RaceStart == St([l \in Locs |-> IF l = RaceLoc THEN InitialPost ELSE NoFile], {}, InitialConfig, {})

\* C20: when two requests that rewrite the same post file, or the same
\* config file, overlap, both are answered with success, the post file ends
\* as the complete output of the request that wrote it last, which is what
\* that request alone would have written (the other's change is lost), and
\* the config ends as the complete output of the request that wrote it last.
C20_LastWriteWinsSilently ==
    BothOverlapped =>
        /\ \A i \in Slots : inflight[i].resp.status = 200
        /\ \A i \in LastWriters :
            /\ tree[RaceLoc] = inflight[i].out
            /\ tree[RaceLoc] = Alone(RaceStart, tz, inflight[i].r).st.tree[RaceLoc]
        /\ \A i \in LastConfigWriters : config = inflight[i].cfg


(***************************************************************************)
(* The order of the listing                                                *)
(***************************************************************************)
\* the place of a post in the enumeration of the content tree
FilePlace(id) == CHOOSE i \in 1..Len(FileOrder) : FileOrder[i] = id

\* how two titles compare: a title that is a number is its digits, which
\* come before every letter
TitleOrder(a, b) ==
    IF a.title.t # "str" /\ b.title.t # "str" THEN 0
    ELSE IF a.title.t # "str" THEN -1
    ELSE IF b.title.t # "str" THEN 1
    ELSE LocaleCompare(a.title.s, b.title.s)

\* how two posts compare on the key a sort parameter names, ascending
KeyOrder(a, b, sort) ==
    IF sort = "title" THEN TitleOrder(a, b)
    ELSE IF sort = "updated"
    THEN (IF a.updated.has THEN a.updated.n ELSE a.date)
         - (IF b.updated.has THEN b.updated.n ELSE b.date)
    ELSE a.date - b.date

\* C21: the posts of a list response are in the order of the requested key
\* (title for sort=title, updated-or-else-date for sort=updated, date for
\* every other sort value), ascending only for order=asc and descending
\* otherwise, and posts that are equal on the key are in the order the
\* files were enumerated, in both directions
C21_PostsOrderedByKeyStably ==
    (req.op = "list" /\ resp.status = 200) =>
        \A i, j \in 1..Len(resp.posts) :
            i < j =>
                LET k == KeyOrder(resp.posts[i], resp.posts[j], req.sort)
                IN  /\ (req.order = "asc") => k <= 0
                    /\ (req.order # "asc") => k >= 0
                    /\ (k = 0) => FilePlace(resp.posts[i].id) < FilePlace(resp.posts[j].id)

\* a descending listing of two posts that are equal on the key, and so in
\* the order of their files
C21_Witness ==
    /\ req.op = "list" /\ resp.status = 200
    /\ req.order = "" /\ req.sort = "size"
    /\ Len(resp.posts) = 2
    /\ KeyOrder(resp.posts[1], resp.posts[2], req.sort) = 0
    /\ resp.posts[1].title # resp.posts[2].title


(***************************************************************************)
(* The recent posts of the statistics                                      *)
(***************************************************************************)
\* `updated`, or else `date`, of a list item
RecentKey(post) == IF post.updated.has THEN post.updated.n ELSE post.date

\* C22: the recent posts of the statistics are the first RECENT_POSTS_COUNT
\* of all parsed posts in descending order of updated-or-else-date, and are
\* what the request without any parameter gets, whatever filter, sort and
\* order the request carries
C22_RecentPostsAreNewestOfAll ==
    (req.op = "list" /\ resp.status = 200) =>
        LET all == AllPosts(tree, tz)
            recent == resp.stats.recentPosts
            plain == listHandler(tree, tz, Query("", "", "", <<>>, "", ""))
        IN  /\ Len(recent) = IF Len(all) < RECENT_POSTS_COUNT THEN Len(all)
                             ELSE RECENT_POSTS_COUNT
            /\ Ids(recent) \subseteq Ids(all)
            /\ Cardinality(Ids(recent)) = Len(recent)
            /\ \A i \in 1..Len(recent) :
                   \E k \in 1..Len(all) : all[k] = recent[i]
            /\ \A i, j \in 1..Len(recent) :
                   i < j => RecentKey(recent[i]) >= RecentKey(recent[j])
            /\ \A k \in 1..Len(all) :
                   all[k].id \notin Ids(recent)
                       => \A i \in 1..Len(recent) : RecentKey(recent[i]) >= RecentKey(all[k])
            /\ recent = plain.stats.recentPosts

\* a filtered, ascending title listing over more posts than are kept as
\* recent, some of them left out of the recent posts
C22_Witness ==
    /\ req.op = "list" /\ resp.status = 200
    /\ req.status = "draft" /\ req.sort = "title" /\ req.order = "asc"
    /\ Len(AllPosts(tree, tz)) > RECENT_POSTS_COUNT
    /\ Len(resp.stats.recentPosts) = RECENT_POSTS_COUNT
    /\ resp.posts # <<>>
    /\ \E i \in 1..Len(resp.stats.recentPosts) : ~resp.stats.recentPosts[i].draft


(***************************************************************************)
(* What a save from the editor changes in the stored file                  *)
(***************************************************************************)
\* a save of the loaded post was written, and of the form's fields only the
\* title differs from what the stored file holds
TitleOnlySave ==
    /\ handleSave \/ handleCategoryMappingConfirm
    /\ req'.op = "write" /\ resp'.status = 200
    /\ ~editor.isLoading /\ ~editor.error
    /\ tree[EditorPostId.segs].kind = "post"
    /\ editor.form.title # tree[EditorPostId.segs].fm.title.s
    /\ editor.form.categories = Flatten(tree[EditorPostId.segs].fm.categories.l)
    /\ editor.form.tags = tree[EditorPostId.segs].fm.tags.l

\* C23: a save from the editor after a change of one form field (the title)
\* leaves every other frontmatter key of the stored file but `updated` as it
\* was: the categories and tags keep their values, a key the form does not
\* show (catalog) keeps its value, and a flag that is absent from the file
\* (draft, sticky) stays absent
C23_SaveKeepsOtherKeys ==
    [][TitleOnlySave =>
          LET old == tree[EditorPostId.segs].fm
              new == tree'[EditorPostId.segs].fm
          IN  /\ new.categories = old.categories
              /\ new.tags = old.tags
              /\ new.catalog = old.catalog
              /\ new.draft = old.draft
              /\ new.sticky = old.sticky]_vars


(***************************************************************************)
(* The unsaved-changes flag of the editor                                  *)
(***************************************************************************)
\* C24: when the editor of a loaded post reports no unsaved changes, its
\* content and its title are those of the stored file, which is what was
\* last loaded or written: an edit after loading, and an edit made while a
\* save is on its way, keep the flag set until they are written
C24_NoUnsavedChangesMeansStored ==
    (/\ ~editor.isLoading /\ ~editor.error
     /\ ~editor.hasUnsavedChanges
     /\ tree[EditorPostId.segs].kind = "post")
        => /\ editor.content = tree[EditorPostId.segs].body
           /\ editor.frontmatter.title = tree[EditorPostId.segs].fm.title


(***************************************************************************)
(* Creates of the same target path                                         *)
(***************************************************************************)
\* the create in slot i was answered with success
Created(i) == inflight[i].pc = "done" /\ inflight[i].resp.status = 201

\* C25: of the create requests for one target path at most one is answered
\* with success, whatever the interleaving, and the file a successful
\* create wrote is still what that create wrote
C25_OneCreatePerPath ==
    /\ \A i, j \in Slots :
          (i # j /\ Created(i) /\ Created(j))
              => inflight[i].postId # inflight[j].postId
    /\ \A i \in Slots :
          Created(i)
              => FileAt(Now0, inflight[i].postId) = generateFrontmatter(tz, inflight[i].r)


(***************************************************************************)
(* What a toggle changes                                                   *)
(***************************************************************************)
\* the frontmatter key a toggle request is about
ToggleKey(r) == IF r.op = "toggle-draft" THEN "draft" ELSE "sticky"

\* a toggle that got as far as reading its post file
ToggleReads(r) == r.op \in {"toggle-draft", "toggle-sticky"} /\ ReachesFileRead(r)

C27_EntriesSurviveOtherRequests ==
    [][/\ OgFetched => ogCache'[req'.url.text] # NoEntry
       /\ \A u \in DOMAIN ogCache :
            (ogCache[u] # NoEntry /\ ~(OgFetched /\ req'.url.text = u))
                => ogCache'[u] = ogCache[u]]_vars


(***************************************************************************)
(* The list on display in the dashboard                                    *)
(***************************************************************************)
\* C28: when no list request of the dashboard is outstanding, the response
\* on display is the response to the filter and sort parameters the
\* dashboard has now, in whatever order the responses arrived
C28_DisplayedListIsForCurrentParams ==
    ((\A i \in Slots : inflight[i] = Idle) /\ ~client.dashboard.error)
        => client.dashboard.data.params = Params(client.dashboard)


(***************************************************************************)
(* Slugs of the persisted category map                                     *)
(***************************************************************************)
\* C29: every slug of the category map in config/site.yaml is non-empty and
\* made of lowercase letters, digits and hyphens, whichever client sent the
\* mapping that put it there
C29_PersistedSlugsAreValid ==
    \A i \in 1..Len(ConfigCategoryMap(config)) :
        categorySlugSchema(ConfigCategoryMap(config)[i].slug)


(***************************************************************************)
(* The category lists of the create dialog                                 *)
(***************************************************************************)
\* C30: in the create dialog every custom category is among the selected
\* categories and custom category names are unique and not empty, the
\* categoryMappings of a request the dialog sent name only categories the
\* request carries in categories, and a closed dialog has both lists empty
C30_CustomCategoriesAreSelected ==
    LET d == client.createDialog
    IN  /\ MapNames(d.customCategories) \subseteq Range(d.selectedCategories)
        /\ \A i, j \in 1..Len(d.customCategories) :
             /\ d.customCategories[i].name # ""
             /\ i # j => d.customCategories[i].name # d.customCategories[j].name
        /\ req.op = "create" => MapNames(req.categoryMappings) \subseteq Range(req.categories)
        /\ ~d.open => d.selectedCategories = <<>> /\ d.customCategories = <<>>

====
